---- MODULE Spec2Model ----
(***************************************************************************)
(* Flood progression simulation (src/main_code/flood_simulation.py).       *)
(*                                                                         *)
(* Numbers.  The program computes in floating point.  The model computes   *)
(* in fixed point: a depth, a rainfall intensity or an elevation is an     *)
(* integer count of thousandths (of a mm, mm/h or m), a dimensionless      *)
(* factor is an integer count of permille, and a product of two such       *)
(* numbers is divided by 1000 and truncated.                               *)
(*                                                                         *)
(* Grid.  The program fixes grid_size = 100; the model runs the same code  *)
(* on an N x N grid, N a bound, and scales the quantities that the code    *)
(* states in grid cells (urban patch margin and radius, storm margin and   *)
(* radius) so that they fit the small grid.                                *)
(*                                                                         *)
(* Random numbers.  np.random.default_rng(seed) is a deterministic stream  *)
(* of draws.  The model takes the stream from a small family of streams    *)
(* (variable stream, fixed for the life of the process); a generator is    *)
(* the position of its next draw in that stream.                           *)
(***************************************************************************)
EXTENDS Integers, Sequences, FiniteSets, TLC

\* ------------------------------------------------------------------ bounds
N == 4
MaxDays == 1
UrbanPatches == 2
UrbanMargin == 1
UrbanRadiusMin == 1
StormMargin == 1
StormRadiusMin == 2
\* The visiting orders tried for the redistribution loops rotate the
\* row-major order by up to MaxRotation places.
MaxRotation == 1
\* The wall clock advances at most MaxClock times.
MaxClock == 1

\* ------------------------------------------------------- program constants
HoursPerDay == 24
BaseInfiltration == 5000
BaseRunoff == 700
EvaporationRate == 2000
SaturationDepth == 50
FlowThreshold == 3000
SevereDepth == 20000
ModerateDepth == 10000
LightDepth == 5000

\* --------------------------------------------------------------- arithmetic
Min2(a, b) == IF a < b THEN a ELSE b
Max2(a, b) == IF a > b THEN a ELSE b

\* x * p for a factor p given in permille: (x * p) \div 1000, computed in two
\* parts so that the product stays within TLC's integers.
Mul(x, p) == (x \div 1000) * p + ((x % 1000) * p) \div 1000

\* np.maximum(x, 0)
ClampUnchecked(x) == x
ClampNonNegative(x) == Max2(x, 0)

\* ------------------------------------------------------------------- grid
Idx == 0 .. (N - 1)
Cells == Idx \X Idx
CellsOf(n) == (0 .. (n - 1)) \X (0 .. (n - 1))
Zeros == [c \in Cells |-> 0]

\* for i in range(1, grid_size - 1): for j in range(1, grid_size - 1)
SourceRangeWithBorder == Idx
SourceRange == 1 .. (N - 2)
Interior == SourceRange \X SourceRange
IsBorder(c) == c[1] = 0 \/ c[1] = N - 1 \/ c[2] = 0 \/ c[2] = N - 1

\* The row-major order of the two nested loops over the source cells.
RECURSIVE RowMajorFrom(_, _)
RowMajorFrom(k, rng) ==
    IF k >= N * N THEN << >>
    ELSE LET c == << k \div N, k % N >>
         IN  (IF c[1] \in rng /\ c[2] \in rng THEN << c >> ELSE << >>)
             \o RowMajorFrom(k + 1, rng)
SourceOrder == RowMajorFrom(0, SourceRange)

\* neighbors = [(i-1, j), (i+1, j), (i, j-1), (i, j+1),
\*              (i-1, j-1), (i-1, j+1), (i+1, j-1), (i+1, j+1)]
NeighborOffsets ==
    << <<-1, 0>>, <<1, 0>>, <<0, -1>>, <<0, 1>>,
       <<-1, -1>>, <<-1, 1>>, <<1, -1>>, <<1, 1>> >>
Neighbors(c) ==
    [k \in 1 .. 8 |-> << c[1] + NeighborOffsets[k][1], c[2] + NeighborOffsets[k][2] >>]
\* Python indexing: an index in -N .. -1 wraps to the end of the axis.
Wrap(c) == << c[1] % N, c[2] % N >>

\* ------------------------------------------------------- random generators
\* The streams np.random.default_rng may yield: each a cycle of draws of
\* rng.random(), in permille.
Streams ==
    { << 970, 100, 600, 200, 300, 150, 800, 50, 400 >>,
      << 0 >>,
      << 120, 980, 40, 700, 310, 999, 0 >>,
      << 960, 30, 450, 990, 200, 5, 640, 870 >> }

\* rng.random(): the draw at position pos of the stream.
DrawAt(tape, pos) == tape[(pos % Len(tape)) + 1]

\* np.random.default_rng(seed): the generator starts where the seed puts it.
DefaultRng(tape, seed) == seed % Len(tape)

\* rng.uniform(lo, hi) from the draw u.
Uniform(lo, hi, u) == lo + ((hi - lo) * u) \div 1000

\* rng.integers(lo, hi) from the draw u: lo <= result < hi.
Integers(lo, hi, u) == lo + ((hi - lo) * u) \div 1000

\* Position of cell c in a row-major (N, N) array of draws.
CellIndex(c) == c[1] * N + c[2]

\* np.sin and np.cos of an angle given in permille of a full turn, as the
\* piecewise-linear wave through their zeros and extremes; result in permille.
SinTurn(p) ==
    LET q == p % 1000
    IN  IF q <= 250 THEN 4 * q
        ELSE IF q <= 750 THEN 4 * (500 - q)
        ELSE 4 * (q - 1000)
CosTurn(p) == SinTurn(p + 250)

\* ---------------------------------------------------------------- terrain
\* What rasterio finds at 'dem.tif': no usable file, or a raster of some
\* size with some relief.
DemFiles ==
    { [file |-> FALSE],
      [file |-> TRUE, rows |-> N, relief |-> "flat"],
      [file |-> TRUE, rows |-> N + 3, relief |-> "peak"],
      [file |-> TRUE, rows |-> 2 * N, relief |-> "slope"] }

\* np.linspace(0, 1, grid_size)[k], in permille.
Linspace01(k) == (1000 * k) \div (N - 1)

\* elevation = 900 + 50 * np.sin(2 * np.pi * X) * np.cos(2 * np.pi * Y)
SyntheticElevation ==
    [c \in Cells |->
        900000 + (50 * SinTurn(Linspace01(c[2])) * CosTurn(Linspace01(c[1]))) \div 1000]

\* The raster after ndimage.zoom to (grid_size, grid_size).
ZoomedElevation(d) ==
    [c \in Cells |->
        IF d.relief = "peak" THEN (IF c = <<1, 1>> THEN 906000 ELSE 900000)
        ELSE IF d.relief = "slope" THEN 900000 + 2500 * c[1]
        ELSE 900000]

\* try: rasterio.open('dem.tif') ... zoom;  except: synthetic elevation.
Elevation(d) == IF d.file THEN ZoomedElevation(d) ELSE SyntheticElevation

\* ------------------------------------------- land-surface parameter fields
\* distance < radius, for distance = sqrt(di^2 + dj^2).
Within(c, centre, radius) ==
    (c[1] - centre[1]) * (c[1] - centre[1]) + (c[2] - centre[2]) * (c[2] - centre[2])
        < radius * radius

\* One urban patch, its three draws taken at position pos: cells inside the
\* disk get infiltration * 0.2 and runoff = min(0.95, runoff * 1.8).
UrbanPatch(land, tape, pos) ==
    LET ci == Integers(UrbanMargin, N - UrbanMargin, DrawAt(tape, pos))
        cj == Integers(UrbanMargin, N - UrbanMargin, DrawAt(tape, pos + 1))
        r  == Integers(UrbanRadiusMin, UrbanRadiusMin + 2, DrawAt(tape, pos + 2))
        inside(c) == /\ Max2(0, ci - r) <= c[1] /\ c[1] < Min2(N, ci + r)
                     /\ Max2(0, cj - r) <= c[2] /\ c[2] < Min2(N, cj + r)
                     /\ Within(c, <<ci, cj>>, r)
    IN  [ infiltration |-> [c \in Cells |->
              IF inside(c) THEN Mul(land.infiltration[c], 200)
              ELSE land.infiltration[c]],
          runoff |-> [c \in Cells |->
              IF inside(c) THEN Min2(950, Mul(land.runoff[c], 1800))
              ELSE land.runoff[c]] ]

RECURSIVE UrbanPatchesFrom(_, _, _, _)
UrbanPatchesFrom(land, tape, pos, k) ==
    IF k = 0 THEN land
    ELSE UrbanPatchesFrom(UrbanPatch(land, tape, pos), tape, pos + 3, k - 1)

\* infiltration_spatial and runoff_spatial, and the generator after them.
LandSurface(tape, rng) ==
    LET base == [ infiltration |-> [c \in Cells |->
                      Mul(BaseInfiltration,
                          500 + Uniform(0, 1500, DrawAt(tape, rng + CellIndex(c))))],
                  runoff |-> [c \in Cells |->
                      Mul(BaseRunoff,
                          300 + Uniform(0, 1400, DrawAt(tape, rng + N * N + CellIndex(c))))] ]
        land == UrbanPatchesFrom(base, tape, rng + 2 * N * N, UrbanPatches)
    IN  [ infiltration |-> land.infiltration,
          runoff |-> land.runoff,
          rng |-> rng + 2 * N * N + 3 * UrbanPatches ]

\* --------------------------------------------- hydrological response engine
\* pd.to_datetime(self.precipitation_forecast.time[t]).hour, the forecast's
\* times being start_date + t hours.
HourOf(start, t) == (start.hour + t) % 24

\* evaporation_rate between 06:00 and 18:00, 30 % of it otherwise.
ActualEvaporation(hour) ==
    IF 6 <= hour /\ hour <= 18 THEN EvaporationRate ELSE Mul(EvaporationRate, 300)

\* prev_water: zeros at t = 0, water_depth[t-1] afterwards.
PrevWaterPeak(wd, t) ==
    [c \in Cells |->
        IF t = 0 THEN 0
        ELSE LET seen == {wd[u][c] : u \in 0 .. (t - 1)}
             IN  CHOOSE m \in seen : \A x \in seen : x <= m]
PrevWater(wd, t) == IF t = 0 THEN Zeros ELSE wd[t - 1]

\* soil_saturation = np.minimum(prev_water / 50.0, 1.0), in permille.
SoilSaturation(prev) == Min2(prev \div SaturationDepth, 1000)

\* actual_infiltration = infiltration_spatial * (1 - soil_saturation * 0.8)
ActualInfiltration(infiltration, prev) ==
    Mul(infiltration, 1000 - Mul(SoilSaturation(prev), 800))

\* net_input = current_precip * runoff_spatial
NetInput(precip, runoff) == Mul(precip, runoff)

\* water_loss = np.minimum(actual_infiltration + actual_evaporation,
\*                         prev_water + net_input)
WaterLoss(infiltration, prev, net, hour) ==
    Min2(ActualInfiltration(infiltration, prev) + ActualEvaporation(hour), prev + net)

\* retention_threshold = 0.5 + 0.5 * infiltration_spatial / base_infiltration
RetentionThreshold(infiltration) == 500 + (500 * infiltration) \div BaseInfiltration

\* new_water after the water balance, the clamp and the retention threshold.
ProvisionalDepthFilled(infiltration, prev, net, hour) ==
    LET balance == ClampNonNegative(prev + net - WaterLoss(infiltration, prev, net, hour))
    IN  IF balance < RetentionThreshold(infiltration) THEN RetentionThreshold(infiltration)
        ELSE balance
ProvisionalDepthUnfiltered(infiltration, prev, net, hour) ==
    ClampNonNegative(prev + net - WaterLoss(infiltration, prev, net, hour))
ProvisionalDepth(infiltration, prev, net, hour) ==
    LET balance == ClampNonNegative(prev + net - WaterLoss(infiltration, prev, net, hour))
    IN  IF balance < RetentionThreshold(infiltration) THEN 0 ELSE balance

\* depression_factor = rng.uniform(0.8, 1.2, (grid_size, grid_size))
DepressionFactor(tape, rng, c) == Uniform(800, 1200, DrawAt(tape, rng + CellIndex(c)))

\* flow_factor = 0.15 + 0.1 * (runoff_spatial / base_runoff)
FlowFactor(runoff) == 150 + (100 * runoff) \div BaseRunoff

\* A flow amount that the difference of the heads does not limit.
FlowAmountUncapped(depth, factor, level_diff) == Mul(Mul(depth, factor), 400)
\* flow_amount = min(new_water[i, j] * flow_factor[i, j] * 0.4, level_diff * 0.3)
FlowAmount(depth, factor, level_diff) ==
    Min2(Mul(Mul(depth, factor), 400), Mul(level_diff, 300))

\* The share of a flow that reaches the destination cell.
FlowArrivingDoubled(flow) == Mul(flow, 1800)
FlowArriving(flow) == Mul(flow, 800)

\* The state of the redistribution loops: w is what the head comparisons
\* read (new_water), change is water_change.
\*   water_change[i, j] -= flow_amount
\*   water_change[ni, nj] += flow_amount * 0.8
AccumulateInPlace(ls, c, n, flow) ==
    [ls EXCEPT !.w = [@ EXCEPT ![c] = @ - flow, ![n] = @ + FlowArriving(flow)]]
Accumulate(ls, c, n, flow) ==
    [ls EXCEPT !.change = [@ EXCEPT ![c] = @ - flow, ![n] = @ + FlowArriving(flow)]]

\* One iteration of "for ni, nj in neighbors" for source c, whose head
\* current_level was read before the loop.
VisitNeighbor(ls, c, n, current_level, factor, elevation) ==
    LET neighbor_level == elevation[n] + ls.w[n]
    IN  IF current_level > neighbor_level
        THEN Accumulate(ls, c, n,
                 FlowAmount(ls.w[c], factor[c], current_level - neighbor_level))
        ELSE ls

RECURSIVE VisitNeighbors(_, _, _, _, _, _, _)
VisitNeighbors(ls, c, order, k, current_level, factor, elevation) ==
    IF k > Len(order) THEN ls
    ELSE VisitNeighbors(
             VisitNeighbor(ls, c, Wrap(Neighbors(c)[order[k]]), current_level,
                           factor, elevation),
             c, order, k + 1, current_level, factor, elevation)

\* The body of the two loops for a cell that is a source whenever it holds
\* water.
FlowFromAnyCell(ls, c, order, factor, elevation) ==
    IF ls.w[c] > 0
    THEN VisitNeighbors(ls, c, order, 1, elevation[c] + ls.w[c], factor, elevation)
    ELSE ls
\* The body of the two loops for one cell (i, j): a source if its depth > 3.
FlowFromCell(ls, c, order, factor, elevation) ==
    IF ls.w[c] > FlowThreshold
    THEN VisitNeighbors(ls, c, order, 1, elevation[c] + ls.w[c], factor, elevation)
    ELSE ls

CodeNeighborOrder == << 1, 2, 3, 4, 5, 6, 7, 8 >>

\* The two nested loops over the source cells, visited in the order sources,
\* each with its neighbours in the order given.
RECURSIVE FlowFromCells(_, _, _, _, _, _)
FlowFromCells(ls, sources, order, k, factor, elevation) ==
    IF k > Len(sources) THEN ls
    ELSE FlowFromCells(FlowFromCell(ls, sources[k], order, factor, elevation),
                       sources, order, k + 1, factor, elevation)

\* new_water += water_change; new_water = np.maximum(new_water, 0)
ApplyFlow(ls) == [c \in Cells |-> ClampNonNegative(ls.w[c] + ls.change[c])]

\* The whole update of timestep t: the new depths, the water_change of the
\* step and the generator after the step; visit names the order in which the
\* redistribution loops run.
StepWaterIn(t, prev, precip, hour, land, elevation, tape, rng, visit) ==
    LET balanced == [c \in Cells |->
            ProvisionalDepth(land.infiltration[c], prev[c],
                             NetInput(precip[c], land.runoff[c]), hour)]
    IN  IF t = 0
        THEN [water |-> balanced, change |-> Zeros, rng |-> rng]
        ELSE LET pooled == [c \in Cells |->
                     Mul(balanced[c], DepressionFactor(tape, rng, c))]
                 factor == [c \in Cells |-> FlowFactor(land.runoff[c])]
                 ls == FlowFromCells([w |-> pooled, change |-> Zeros],
                                     visit.sources, visit.neighbors, 1, factor, elevation)
             IN  [water |-> ApplyFlow(ls), change |-> ls.change, rng |-> rng + N * N]

\* The order the code's loops run in: row-major sources, the neighbours as
\* the list names them.
CodeVisit == [sources |-> SourceOrder, neighbors |-> CodeNeighborOrder]
StepWater(t, prev, precip, hour, land, elevation, tape, rng) ==
    StepWaterIn(t, prev, precip, hour, land, elevation, tape, rng, CodeVisit)

\* Other orders for the same loops: the first rotations of the row-major
\* order and of its reverse, the neighbour list forwards and backwards.
Reverse(seq) == [k \in 1 .. Len(seq) |-> seq[Len(seq) + 1 - k]]
Rotate(seq, r) == [k \in 1 .. Len(seq) |-> seq[((k - 1 + r) % Len(seq)) + 1]]
Visits ==
    { [sources |-> Rotate(base, r), neighbors |-> order] :
          base \in {SourceOrder, Reverse(SourceOrder)},
          r \in 0 .. MaxRotation,
          order \in {CodeNeighborOrder, Reverse(CodeNeighborOrder)} }

\* flood_extent: 3 above 20 mm, 2 above 10 mm, 1 above 5 mm, else 0.
FloodExtentFirstMatch(depth) ==
    IF depth > LightDepth THEN 1
    ELSE IF depth > ModerateDepth THEN 2
    ELSE IF depth > SevereDepth THEN 3
    ELSE 0
FloodExtent(depth) ==
    IF depth > SevereDepth THEN 3
    ELSE IF depth > ModerateDepth THEN 2
    ELSE IF depth > LightDepth THEN 1
    ELSE 0

\* ------------------------------------------------ weather forecast generator
\* weather_scenarios, in table order; intensity in thousandths of mm/h,
\* probability in permille.
WeatherScenarios ==
    << [name |-> "Light Rain",      intensity |-> 2000,   probability |-> 300],
       [name |-> "Moderate Rain",   intensity |-> 8000,   probability |-> 400],
       [name |-> "Heavy Rain",      intensity |-> 25000,  probability |-> 200],
       [name |-> "Very Heavy Rain", intensity |-> 50000,  probability |-> 80],
       [name |-> "Extreme Rain",    intensity |-> 100000, probability |-> 20] >>

\* monsoon_factor: 2.5 in June..September, 1.5 in May and October, else 1.
MonsoonFactor(month) ==
    IF 6 <= month /\ month <= 9 THEN 2500
    ELSE IF month \in {5, 10} THEN 1500
    ELSE 1000

\* diurnal_factor: 1.8 from 14:00 to 20:00, 1.2 from 02:00 to 06:00, else 1.
DiurnalFactor(hour) ==
    IF 14 <= hour /\ hour <= 20 THEN 1800
    ELSE IF 2 <= hour /\ hour <= 6 THEN 1200
    ELSE 1000

\* The index of the last scenario of the table that matches, 0 if none does.
FirstScenarioLastMatch(event_probability) ==
    LET hits == {k \in 1 .. Len(WeatherScenarios) :
                    event_probability < WeatherScenarios[k].probability}
    IN  IF hits = {} THEN 0 ELSE CHOOSE k \in hits : \A m \in hits : k >= m
\* for scenario in weather_scenarios: if event_probability < probability:
\* ...; break  -- the index of the first match, 0 if none matches.
FirstScenario(event_probability) ==
    LET hits == {k \in 1 .. Len(WeatherScenarios) :
                    event_probability < WeatherScenarios[k].probability}
    IN  IF hits = {} THEN 0 ELSE CHOOSE k \in hits : \A m \in hits : k <= m

\* np.sqrt(di^2 + dj^2), in thousandths, to a tenth of a cell.
Distance(c, centre) ==
    LET sq == (c[1] - centre[1]) * (c[1] - centre[1])
              + (c[2] - centre[2]) * (c[2] - centre[2])
    IN  100 * (CHOOSE r \in 0 .. (15 * N) : r * r <= 100 * sq /\ 100 * sq < (r + 1) * (r + 1))

\* np.exp(-x) for x >= 0 in permille, as 1 / (1 + x + x^2 / 2); in permille.
ExpNeg(x) == (1000 * 1000) \div (1000 + x + (x * x) \div 2000)

\* np.arctan2(y, x) in permille of a turn, to the nearest eighth of a turn.
Arctan2Turn(y, x) ==
    LET ax == IF x < 0 THEN -x ELSE x
        ay == IF y < 0 THEN -y ELSE y
    IN  IF x = 0 /\ y = 0 THEN 0
        ELSE IF 2 * ay < ax THEN (IF x > 0 THEN 0 ELSE 500)
        ELSE IF 2 * ax < ay THEN (IF y > 0 THEN 250 ELSE 750)
        ELSE IF x > 0 THEN (IF y > 0 THEN 125 ELSE 875)
        ELSE (IF y > 0 THEN 375 ELSE 625)

\* local_intensity of a cell inside the storm radius; noise and wind are the
\* two draws taken for the cell.
LocalIntensity(base, c, centre, radius, variation, noise, wind) ==
    LET intensity_factor == ExpNeg((1000 * Distance(c, centre)) \div (radius \div 2))
        elevation_factor ==
            1000 + (800 * SinTurn((1000 * c[1]) \div N) * CosTurn((1000 * c[2]) \div N))
                       \div 1000000
        orographic_factor ==
            1000 + (600 * SinTurn((1000 * c[1]) \div 60) * CosTurn((1000 * c[2]) \div 50))
                       \div 1000000
        spatial_noise == Uniform(100, 2500, noise)
        wind_effect ==
            1000 + Mul(400, CosTurn(wind + Arctan2Turn(c[2] - centre[2], c[1] - centre[1])))
    IN  Mul(Mul(Mul(Mul(Mul(Mul(base, intensity_factor), variation), elevation_factor),
                    orographic_factor), spatial_noise), wind_effect)

\* The generator's position before cell number k of the storm's two loops:
\* a cell inside the radius takes two draws, a cell outside one, and a
\* second if the first is below 0.1.
RECURSIVE StormRng(_, _, _, _, _)
StormRng(tape, rng, k, centre, radius) ==
    IF k = 0 THEN rng
    ELSE LET before == StormRng(tape, rng, k - 1, centre, radius)
             c == << (k - 1) \div N, (k - 1) % N >>
         IN  IF Distance(c, centre) < radius \/ DrawAt(tape, before) < 100
             THEN before + 2
             ELSE before + 1

\* precipitation[t, i, j] += amount
SubtractPrecipitation(entry, amount) == entry - amount
AddPrecipitation(entry, amount) == entry + amount

\* The two loops over the cells for one storm: field is precipitation[t],
\* rng the generator.
StormCells(field, tape, rng, base, centre, radius, variation) ==
    [ field |-> [c \in Cells |->
          LET at == StormRng(tape, rng, CellIndex(c), centre, radius)
          IN  IF Distance(c, centre) < radius
              THEN AddPrecipitation(field[c],
                       Max2(0, LocalIntensity(base, c, centre, radius, variation,
                                              DrawAt(tape, at), DrawAt(tape, at + 1))))
              ELSE IF DrawAt(tape, at) < 100
              THEN AddPrecipitation(field[c],
                       Mul(Mul(base, 100), Uniform(100, 800, DrawAt(tape, at + 1))))
              ELSE field[c]],
      rng |-> StormRng(tape, rng, N * N, centre, radius) ]

\* One weather system: the gated draw, the scenario, and the storm if one
\* is instantiated.
WeatherSystem(field, tape, rng, monsoon, diurnal) ==
    LET event_probability == Mul(Mul(DrawAt(tape, rng), monsoon), diurnal)
        k == FirstScenario(event_probability)
    IN  IF k = 0 THEN [field |-> field, rng |-> rng + 1, scenario |-> 0]
        ELSE LET centre == << Integers(StormMargin, N - StormMargin, DrawAt(tape, rng + 1)),
                              Integers(StormMargin, N - StormMargin, DrawAt(tape, rng + 2)) >>
                 radius == Uniform(1000 * StormRadiusMin, 1000 * (StormRadiusMin + 2),
                                   DrawAt(tape, rng + 3))
                 variation == Uniform(200, 2000, DrawAt(tape, rng + 4))
                 done == StormCells(field, tape, rng + 5, WeatherScenarios[k].intensity,
                                    centre, radius, variation)
             IN  [field |-> done.field, rng |-> done.rng, scenario |-> k]

RECURSIVE WeatherSystems(_, _, _, _, _, _)
WeatherSystems(field, tape, rng, left, monsoon, diurnal) ==
    IF left = 0 THEN [field |-> field, rng |-> rng, scenarios |-> << >>]
    ELSE LET one == WeatherSystem(field, tape, rng, monsoon, diurnal)
         IN  [WeatherSystems(one.field, tape, one.rng, left - 1, monsoon, diurnal)
                  EXCEPT !.scenarios = << one.scenario >> \o @]

\* precipitation[t] and the generator after timestep t, with the scenario
\* each weather system of the timestep broke its loop at (0: at none).
ForecastStep(tape, rng, start, t) ==
    LET num_systems == Integers(2, 5, DrawAt(tape, rng))
    IN  WeatherSystems(Zeros, tape, rng + 1, num_systems,
                       MonsoonFactor(start.month), DiurnalFactor(HourOf(start, t)))

\* ------------------------------------------------------ progression analyzer
RECURSIVE SumOver(_, _)
SumOver(f, S) ==
    IF S = {} THEN 0
    ELSE LET x == CHOOSE y \in S : TRUE IN f[x] + SumOver(f, S \ {x})

MaxOf(S) == CHOOSE m \in S : \A x \in S : x <= m

\* round(x, digits) on thousandths: to the nearest multiple of q.
RoundTo(x, q) == ((x + q \div 2) \div q) * q

\* self.timesteps = simulation_days * 24
TimestepsOf(days) == days * HoursPerDay

\* The hours from the start of the simulation to the end of day (0-based).
DayHoursCumulative(day) == 0 .. ((day + 1) * HoursPerDay - 1)
\* day_start .. day_end - 1 for day (0-based).
DayHours(day) == (day * HoursPerDay) .. ((day + 1) * HoursPerDay - 1)

\* if max_water_depth < 50: Low; elif < 200: Moderate; elif < 500: High;
\* else: Extreme
RiskLevelInclusive(max_water_depth) ==
    IF max_water_depth <= 50000 THEN "Low"
    ELSE IF max_water_depth <= 200000 THEN "Moderate"
    ELSE IF max_water_depth <= 500000 THEN "High"
    ELSE "Extreme"
RiskLevel(max_water_depth) ==
    IF max_water_depth < 50000 THEN "Low"
    ELSE IF max_water_depth < 200000 THEN "Moderate"
    ELSE IF max_water_depth < 500000 THEN "High"
    ELSE "Extreme"

\* What an entry x contributes to a sum: itself, 1 if it is positive, its
\* whole mm, or its thousandths.
Part(x, kind) ==
    CASE kind = "value" -> x
      [] kind = "wet" -> IF x > 0 THEN 1 ELSE 0
      [] kind = "whole" -> x \div 1000
      [] kind = "thousandths" -> x % 1000

\* The sum of the parts of the first k entries, in row-major order, of an
\* (n, n) field.
RECURSIVE SumField(_, _, _, _)
SumField(field, n, k, kind) ==
    IF k = 0 THEN 0
    ELSE Part(field[<< (k - 1) \div n, (k - 1) % n >>], kind) + SumField(field, n, k - 1, kind)

\* The sum over the first h hours of a day.
RECURSIVE SumHours(_, _, _, _, _)
SumHours(arr, day, n, h, kind) ==
    IF h = 0 THEN 0
    ELSE SumField(arr[day * HoursPerDay + h - 1], n, n * n, kind)
             + SumHours(arr, day, n, h - 1, kind)

\* np.sum over the hours of a day and the cells of an (n, n) grid.
SumDay(arr, day, n, kind) == SumHours(arr, day, n, HoursPerDay, kind)

\* np.max over the hours of a day and the cells of an (n, n) grid.
MaxDay(arr, day, n) ==
    MaxOf({ MaxOf({ arr[t][c] : c \in CellsOf(n) }) : t \in DayHours(day) })

\* np.mean(daily_water): the mean of all entries.
MeanOfAll(wd, day) ==
    [nan |-> FALSE, v |-> SumDay(wd, day, N, "value") \div (HoursPerDay * N * N)]

\* np.mean(daily_water[daily_water > 0]): the mean of the positive entries,
\* NaN if there is none.  The sum is kept in two parts, whole mm and
\* thousandths.
MeanOfWet(wd, day) ==
    LET count == SumDay(wd, day, N, "wet")
        whole == SumDay(wd, day, N, "whole")
        part == SumDay(wd, day, N, "thousandths")
    IN  IF count = 0 THEN [nan |-> TRUE, v |-> 0]
        ELSE [nan |-> FALSE,
              v |-> (whole \div count) * 1000 + ((whole % count) * 1000 + part) \div count]

\* One record of daily_stats, for day (0-based).  Depths and rain are in
\* thousandths of a mm, the area in millionths of a km^2.
DailyStatistics(wd, fe, forecast, day) ==
    LET max_water_depth == MaxDay(wd, day, N)
        avg_water_depth == MeanOfWet(wd, day)
        daily_max_class == [c \in Cells |-> MaxOf({fe[t][c] : t \in DayHours(day)})]
        flooded_area == (SumOver(daily_max_class, Cells) * 160000) \div (N * N)
        total_precipitation ==
            SumDay(forecast.precipitation, day, forecast.n, "value")
        peak_intensity == MaxDay(forecast.precipitation, day, forecast.n)
    IN  [ day |-> day + 1,
          max_water_depth_mm |-> RoundTo(max_water_depth, 100),
          avg_water_depth_mm |->
              RoundTo(IF avg_water_depth.nan THEN 0 ELSE avg_water_depth.v, 100),
          flooded_area_km2 |-> RoundTo(flooded_area, 10000),
          total_precipitation_mm |-> RoundTo(total_precipitation, 100),
          peak_intensity_mm_h |-> RoundTo(peak_intensity, 100),
          risk_level |-> RiskLevel(max_water_depth) ]

\* daily_stats: the records of the days from day (0-based) on, in order.
RECURSIVE DailyStatsFrom(_, _, _, _, _)
DailyStatsFrom(wd, fe, forecast, day, days) ==
    IF day >= days THEN << >>
    ELSE << DailyStatistics(wd, fe, forecast, day) >>
             \o DailyStatsFrom(wd, fe, forecast, day + 1, days)

\* simulation_summary
SimulationSummary(wd, fe, forecast, days) ==
    LET daily_stats == DailyStatsFrom(wd, fe, forecast, 0, days)
        max_overall_depth ==
            MaxOf({ MaxDay(wd, d - 1, N) : d \in 1 .. days })
        max_flooded_area == MaxOf({daily_stats[d].flooded_area_km2 : d \in 1 .. days})
        total_rain == SumOver([d \in 1 .. days |-> daily_stats[d].total_precipitation_mm],
                              1 .. days)
    IN  [ total_simulation_hours |-> TimestepsOf(days),
          max_water_depth_mm |-> RoundTo(max_overall_depth, 100),
          max_flooded_area_km2 |-> RoundTo(max_flooded_area, 10000),
          total_precipitation_mm |-> RoundTo(total_rain, 100),
          daily_statistics |-> daily_stats ]

\* ----------------------------------------------------------- alert generator
RiskRank(level) ==
    CASE level = "Low" -> 1 [] level = "Moderate" -> 2
      [] level = "High" -> 3 [] level = "Extreme" -> 4

\* The record a day's statistics yield: which list it joins and with which
\* severity; "none" when the day yields no record.
DayAlertFromTen(stat) ==
    IF stat.risk_level = "Extreme"
    THEN [list |-> "alerts", day |-> stat.day, severity |-> "CRITICAL",
          type |-> "EXTREME FLOOD WARNING"]
    ELSE IF stat.risk_level = "High"
    THEN [list |-> "alerts", day |-> stat.day, severity |-> "HIGH",
          type |-> "SEVERE FLOOD ALERT"]
    ELSE IF stat.risk_level = "Moderate"
    THEN [list |-> "warnings", day |-> stat.day, severity |-> "MODERATE",
          type |-> "FLOOD WATCH"]
    ELSE IF stat.max_water_depth_mm >= 10000
    THEN [list |-> "warnings", day |-> stat.day, severity |-> "LOW",
          type |-> "FLOOD ADVISORY"]
    ELSE [list |-> "none", day |-> stat.day, severity |-> "", type |-> ""]
DayAlert(stat) ==
    IF stat.risk_level = "Extreme"
    THEN [list |-> "alerts", day |-> stat.day, severity |-> "CRITICAL",
          type |-> "EXTREME FLOOD WARNING"]
    ELSE IF stat.risk_level = "High"
    THEN [list |-> "alerts", day |-> stat.day, severity |-> "HIGH",
          type |-> "SEVERE FLOOD ALERT"]
    ELSE IF stat.risk_level = "Moderate"
    THEN [list |-> "warnings", day |-> stat.day, severity |-> "MODERATE",
          type |-> "FLOOD WATCH"]
    ELSE IF stat.max_water_depth_mm > 10000
    THEN [list |-> "warnings", day |-> stat.day, severity |-> "LOW",
          type |-> "FLOOD ADVISORY"]
    ELSE [list |-> "none", day |-> stat.day, severity |-> "", type |-> ""]

RECURSIVE DayAlerts(_, _, _)
DayAlerts(stats, list, k) ==
    IF k > Len(stats) THEN << >>
    ELSE LET a == DayAlert(stats[k])
         IN  (IF a.list = list THEN << a >> ELSE << >>) \o DayAlerts(stats, list, k + 1)

\* The order of the labels as strings.
AlphabeticalRank(level) ==
    CASE level = "Extreme" -> 1 [] level = "High" -> 2
      [] level = "Low" -> 3 [] level = "Moderate" -> 4

\* max(daily_statistics, key = rank of risk_level): the first day of
\* greatest rank.
HighestRiskDayByName(stats) ==
    LET top == MaxOf({AlphabeticalRank(stats[k].risk_level) : k \in 1 .. Len(stats)})
        k0 == CHOOSE k \in 1 .. Len(stats) :
                  /\ AlphabeticalRank(stats[k].risk_level) = top
                  /\ \A m \in 1 .. (k - 1) : AlphabeticalRank(stats[m].risk_level) < top
    IN  stats[k0]
HighestRiskDay(stats) ==
    LET top == MaxOf({RiskRank(stats[k].risk_level) : k \in 1 .. Len(stats)})
        k0 == CHOOSE k \in 1 .. Len(stats) :
                  /\ RiskRank(stats[k].risk_level) = top
                  /\ \A m \in 1 .. (k - 1) : RiskRank(stats[m].risk_level) < top
    IN  stats[k0]

\* alert_data
AlertData(results) ==
    LET alerts == DayAlerts(results.daily_statistics, "alerts", 1)
        warnings == DayAlerts(results.daily_statistics, "warnings", 1)
    IN  [ alerts |-> alerts,
          warnings |-> warnings,
          summary |-> [ total_alerts |-> Len(alerts),
                        total_warnings |-> Len(warnings),
                        highest_risk_day |-> HighestRiskDay(results.daily_statistics) ] ]

\* ===================================================================== state
SimIds == {"A", "B"}

VARIABLES
    stream,                  \* process: the stream default_rng yields
    dem,                     \* working directory: the file 'dem.tif'
    now,                     \* process: the wall clock, datetime.now()
    np_random_seed,          \* process: the seed of numpy's global generator
    results_file,            \* working directory: flood_simulation_results.json
    alerts_file,             \* working directory: flood_alerts_warnings.json
    start_date,              \* per FloodSimulation object: self.start_date
    simulation_days,         \* self.simulation_days
    precipitation_forecast,  \* self.precipitation_forecast
    water_depth,             \* self.water_depth
    flood_extent,            \* self.flood_extent
    simulation_results,      \* self.simulation_results (None stands for the empty dict)
    frame,                   \* the locals of a running simulate_hydrological_response
    outcome,                 \* how the object's last stage call ended; value: what it
                             \* returned, when that is no field of the object
    pipeline,                \* the position of a running run_complete_simulation
    sim_manager,             \* per process: the fields of its SimulationManager
    event_loop               \* per process: the requests and background tasks of
                             \* its server

envVars == << stream, dem, now >>
fileVars == << results_file, alerts_file >>
paramVars == << start_date, simulation_days >>
dataVars == << precipitation_forecast, water_depth, flood_extent, simulation_results >>
apiVars == << sim_manager, event_loop >>
vars == << stream, dem, now, np_random_seed, results_file, alerts_file, start_date,
           simulation_days, precipitation_forecast, water_depth, flood_extent,
           simulation_results, frame, outcome, pipeline, sim_manager, event_loop >>

\* Python's None, and a value that is not None.
None == [none |-> TRUE]
Some(v) == [none |-> FALSE, v |-> v]

IdleFrame == [active |-> FALSE]
\* Object s is inside the loop of the given stage.
Running(s, stage) == frame[s].active /\ frame[s].stage = stage
NoPipeline == [pc |-> "none", log |-> << >>, result |-> "none"]

\* Start times the constructor is given: month and hour of day.
StartDates ==
    { [month |-> 7, hour |-> 0], [month |-> 7, hour |-> 12], [month |-> 1, hour |-> 17] }

\* int(self.start_date.timestamp()) % 1000
TimestampSeed(start) == (start.month * 744 + start.hour) % 1000

\* rng = np.random.default_rng(42): the seed both stages construct their
\* generator from.
GeneratorSeedFromClock == now
GeneratorSeed == 42

\* __init__: the fields of a new FloodSimulation.
InitObjects ==
    /\ precipitation_forecast = [s \in SimIds |-> None]
    /\ water_depth = [s \in SimIds |-> None]
    /\ flood_extent = [s \in SimIds |-> None]
    /\ simulation_results = [s \in SimIds |-> None]
    /\ frame = [s \in SimIds |-> IdleFrame]
    /\ outcome = [s \in SimIds |-> [call |-> "none", raised |-> FALSE, value |-> None]]
    /\ pipeline = [s \in SimIds |-> NoPipeline]

\* SimulationManager.__init__, and a server that has received no request.
NewManager ==
    [ simulation_status |-> "idle", last_run |-> None, results_cache |-> None,
      current_simulation |-> FALSE ]
IdleLoop == [ pending |-> << >>, tasks |-> 0, executing |-> FALSE, responses |-> << >> ]
InitApi ==
    /\ sim_manager = [s \in SimIds |-> NewManager]
    /\ event_loop = [s \in SimIds |-> IdleLoop]

InitFiles ==
    /\ np_random_seed = 0
    /\ results_file = None
    /\ alerts_file = None
    /\ now = 0

\* ------------------------------------------------------------- stage returns
Stages == << "forecast", "hydro", "analysis", "visual", "alerts" >>

\* The stage run_complete_simulation calls after stage.
StageAfter(stage) ==
    CASE stage = "forecast" -> "hydro" [] stage = "hydro" -> "analysis"
      [] stage = "analysis" -> "visual" [] stage = "visual" -> "alerts"
      [] stage = "alerts" -> "none"

\* The try block of run_complete_simulation after a stage call ended:
\* "except Exception: return False" when it raised, the next call otherwise,
\* "return True" after the last.
AfterStageSwallowing(p, stage, raised) ==
    IF StageAfter(stage) = "none"
    THEN [pc |-> "none", log |-> IF raised THEN p.log ELSE Append(p.log, stage),
          result |-> "true"]
    ELSE [pc |-> StageAfter(stage), log |-> IF raised THEN p.log ELSE Append(p.log, stage),
          result |-> "none"]
AfterStage(p, stage, raised) ==
    IF raised THEN [pc |-> "none", log |-> p.log, result |-> "false"]
    ELSE IF StageAfter(stage) = "none"
    THEN [pc |-> "none", log |-> Append(p.log, stage), result |-> "true"]
    ELSE [pc |-> StageAfter(stage), log |-> Append(p.log, stage), result |-> "none"]

\* Object s is called by its caller directly, or by run_complete_simulation
\* at the given stage.
Direct(s) == pipeline[s] = NoPipeline
Piped(s, stage) == pipeline[s].pc = stage

\* A stage method of object s may be entered: by the caller when the object
\* runs nothing, or by run_complete_simulation when it is that stage's turn.
MayEnter(s, stage) ==
    /\ ~frame[s].active
    /\ pipeline[s].pc \in {"none", stage}

\* The stage call of object s ends, raising or returning value.
ReturnValue(s, stage, raised, value) ==
    /\ outcome' = [outcome EXCEPT ![s] = [call |-> stage, raised |-> raised, value |-> value]]
    /\ pipeline' = IF pipeline[s].pc = stage
                   THEN [pipeline EXCEPT ![s] = AfterStage(@, stage, raised)]
                   ELSE pipeline
Return(s, stage, raised) == ReturnValue(s, stage, raised, None)

\* "if self.<field> is None: raise ValueError(...)" at the head of a stage:
\* the call ends raising.
ReturnEarly(s, stage) == Return(s, stage, FALSE)
RaiseMissingPrerequisite(s, stage) == Return(s, stage, TRUE)

\* Time passes while no stage runs.
Tick ==
    /\ now < MaxClock
    /\ \A s \in SimIds : ~frame[s].active
    /\ now' = now + 1
    /\ UNCHANGED << apiVars, stream, dem, np_random_seed, fileVars, paramVars, dataVars, frame,
                    outcome, pipeline >>

\* ------------------------------------------------------------------- actions
\* run_complete_simulation() is called on object s.
RunCompleteSimulation(s) ==
    /\ ~frame[s].active
    /\ pipeline[s].pc = "none"
    /\ pipeline' = [pipeline EXCEPT ![s] = [pc |-> "forecast", log |-> << >>,
                                            result |-> "none"]]
    /\ UNCHANGED << apiVars, envVars, np_random_seed, fileVars, paramVars, dataVars, frame, outcome >>

\* generate_weather_forecast(), up to the timestep loop: the array of
\* zeros, the global seed, the generator.
GenerateBegin(s) ==
    /\ MayEnter(s, "forecast")
    /\ np_random_seed' = TimestampSeed(start_date[s])
    /\ frame' = [frame EXCEPT ![s] =
           [ active |-> TRUE,
             stage |-> "forecast",
             t |-> 0,
             rng |-> DefaultRng(stream, GeneratorSeed),
             scenarios |-> << >>,
             precipitation |->
                 [t \in 0 .. (TimestepsOf(simulation_days[s]) - 1) |-> Zeros] ]]
    /\ UNCHANGED << apiVars, envVars, fileVars, paramVars, dataVars, outcome, pipeline >>

\* One iteration of "for t in range(self.timesteps)" of the generator.
GenerateStep(s) ==
    /\ Running(s, "forecast")
    /\ frame[s].t < TimestepsOf(simulation_days[s])
    /\ frame' = [frame EXCEPT ![s] =
           LET one == ForecastStep(stream, frame[s].rng, start_date[s], frame[s].t)
           IN  [frame[s] EXCEPT !.t = @ + 1,
                                !.rng = one.rng,
                                !.scenarios = one.scenarios,
                                !.precipitation[frame[s].t] = one.field]]
    /\ UNCHANGED << apiVars, envVars, np_random_seed, fileVars, paramVars, dataVars, outcome,
                    pipeline >>

\* After the loop: self.precipitation_forecast = xr.Dataset(...); return it.
GenerateFinish(s) ==
    /\ Running(s, "forecast")
    /\ frame[s].t = TimestepsOf(simulation_days[s])
    /\ precipitation_forecast' = [precipitation_forecast EXCEPT ![s] =
           Some([ n |-> N,
                  title |-> "Flood Simulation Weather Forecast",
                  precipitation |-> frame[s].precipitation ])]
    /\ frame' = [frame EXCEPT ![s] = IdleFrame]
    /\ Return(s, "forecast", FALSE)
    /\ UNCHANGED << apiVars, envVars, np_random_seed, fileVars, paramVars, water_depth,
                    flood_extent, simulation_results >>

\* Rain fields a caller can install as the forecast: rain(t, c) in
\* thousandths of mm/h.
RainPatterns ==
    { "dry", "steady", "cloudburst", "cell storm", "late burst", "drizzle then burst",
      "cell downpour", "border storm" }
Rain(pattern, t, c) ==
    CASE pattern = "dry" -> 0
      [] pattern = "steady" -> 8000
      [] pattern = "cloudburst" -> 100000
      [] pattern = "cell storm" -> IF t = 0 /\ c = <<1, 1>> THEN 100000 ELSE 0
      [] pattern = "late burst" -> IF t = 2 THEN 25000 ELSE 0
      [] pattern = "drizzle then burst" ->
             IF t = 0 THEN 6000 ELSE IF t = 2 THEN 25000 ELSE 0
      [] pattern = "cell downpour" -> IF c = <<1, 2>> THEN 60000 ELSE 0
      [] pattern = "border storm" -> IF t = 0 /\ c = <<0, 1>> THEN 100000 ELSE 0
SuppliedForecast(pattern, n, steps) ==
    [ n |-> n,
      title |-> pattern,
      precipitation |-> [t \in 0 .. (steps - 1) |-> [c \in CellsOf(n) |-> Rain(pattern, t, c)]] ]

\* The caller assigns self.precipitation_forecast a dataset of its own, on
\* an n x n grid, before any forecast exists.
SupplyForecast(s, pattern, n) ==
    /\ MayEnter(s, "forecast")
    /\ pipeline[s].pc = "none"
    /\ precipitation_forecast[s].none
    /\ precipitation_forecast' = [precipitation_forecast EXCEPT ![s] =
           Some(SuppliedForecast(pattern, n, TimestepsOf(simulation_days[s])))]
    /\ UNCHANGED << apiVars, envVars, np_random_seed, fileVars, paramVars, water_depth, flood_extent,
                    simulation_results, frame, outcome, pipeline >>

\* numpy broadcasting of an (n, n) field against the (N, N) parameter fields.
Broadcastable(n) == n = N \/ n = 1
\* current_precip, seen on the (N, N) grid.
CurrentPrecip(forecast, t) ==
    [c \in Cells |-> IF forecast.n = N THEN forecast.precipitation[t][c]
                     ELSE forecast.precipitation[t][<<0, 0>>]]

\* simulate_hydrological_response(), up to the timestep loop: the check of
\* the prerequisite, the terrain, the arrays, the parameter fields.
SimulateBegin(s) ==
    /\ MayEnter(s, "hydro")
    /\ IF precipitation_forecast[s].none
       THEN /\ RaiseMissingPrerequisite(s, "hydro")
            /\ UNCHANGED frame
       ELSE /\ frame' = [frame EXCEPT ![s] =
                  LET steps == TimestepsOf(simulation_days[s])
                      land == LandSurface(stream, DefaultRng(stream, GeneratorSeed))
                  IN  [ active |-> TRUE,
                        stage |-> "hydro",
                        t |-> 0,
                        elevation |-> Elevation(dem),
                        water_depth |-> [t \in 0 .. (steps - 1) |-> Zeros],
                        flood_extent |-> [t \in 0 .. (steps - 1) |-> Zeros],
                        land |-> [infiltration |-> land.infiltration, runoff |-> land.runoff],
                        rng |-> land.rng,
                        water_change |-> Zeros,
                        reordered |-> FALSE ]]
            /\ UNCHANGED << outcome, pipeline >>
    /\ UNCHANGED << apiVars, envVars, np_random_seed, fileVars, paramVars, dataVars >>

\* A write of row t that also reaches the row before it.
WriteRowAndBefore(arr, t, field) ==
    [u \in DOMAIN arr |-> IF u = t \/ u = t - 1 THEN field ELSE arr[u]]
\* water_depth[t] = new_water; flood_extent[t] = ...: the write of row t.
WriteRow(arr, t, field) == [arr EXCEPT ![t] = field]

\* One iteration of "for t in range(self.timesteps)", its redistribution
\* loops run in the order visit.
SimulateStepIn(s, visit) ==
    /\ Running(s, "hydro")
    /\ frame[s].t < TimestepsOf(simulation_days[s])
    /\ LET f == frame[s]
           forecast == precipitation_forecast[s].v
       IN  IF ~Broadcastable(forecast.n)
           THEN /\ frame' = [frame EXCEPT ![s] = IdleFrame]
                /\ Return(s, "hydro", TRUE)
           ELSE /\ frame' = [frame EXCEPT ![s] =
                       LET step == StepWaterIn(f.t, PrevWater(f.water_depth, f.t),
                                               CurrentPrecip(forecast, f.t),
                                               HourOf(start_date[s], f.t), f.land,
                                               f.elevation, stream, f.rng, visit)
                       IN  [f EXCEPT !.t = f.t + 1,
                                     !.water_depth = WriteRow(@, f.t, step.water),
                                     !.flood_extent =
                                         WriteRow(@, f.t,
                                                  [c \in Cells |-> FloodExtent(step.water[c])]),
                                     !.rng = step.rng,
                                     !.water_change = step.change,
                                     !.reordered = visit # CodeVisit]]
                /\ UNCHANGED << outcome, pipeline >>
    /\ UNCHANGED << apiVars, envVars, np_random_seed, fileVars, paramVars, dataVars >>

\* One iteration of the loop as the code runs it.
SimulateStep(s) == SimulateStepIn(s, CodeVisit)

\* After the loop: self.water_depth = water_depth; self.flood_extent = ...
SimulateFinish(s) ==
    /\ Running(s, "hydro")
    /\ frame[s].t = TimestepsOf(simulation_days[s])
    /\ water_depth' = [water_depth EXCEPT ![s] = Some(frame[s].water_depth)]
    /\ flood_extent' = [flood_extent EXCEPT ![s] = Some(frame[s].flood_extent)]
    /\ frame' = [frame EXCEPT ![s] = IdleFrame]
    /\ Return(s, "hydro", FALSE)
    /\ UNCHANGED << apiVars, envVars, np_random_seed, fileVars, paramVars, precipitation_forecast,
                    simulation_results >>

\* A list of records that outlives the call: the records of the object's
\* last analysis.
DailyStatsKept(s) ==
    IF simulation_results[s].none THEN << >> ELSE simulation_results[s].v.daily_statistics
\* daily_stats = []: the list the records of a call are appended to.
DailyStatsNew(s) == << >>

\* analyze_flood_progression(); the write of the results file succeeds or
\* raises (io_ok).
AnalyzeFloodProgression(s, io_ok) ==
    /\ MayEnter(s, "analysis")
    /\ IF water_depth[s].none
       THEN /\ RaiseMissingPrerequisite(s, "analysis")
            /\ UNCHANGED << simulation_results, results_file >>
       ELSE /\ simulation_results' = [simulation_results EXCEPT ![s] =
                    Some([SimulationSummary(water_depth[s].v, flood_extent[s].v,
                                            precipitation_forecast[s].v, simulation_days[s])
                              EXCEPT !.daily_statistics = DailyStatsNew(s) \o @])]
            /\ results_file' = IF io_ok THEN simulation_results'[s] ELSE results_file
            /\ Return(s, "analysis", ~io_ok)
    /\ UNCHANGED << apiVars, envVars, np_random_seed, alerts_file, paramVars, precipitation_forecast,
                    water_depth, flood_extent, frame >>

\* create_progression_visualization(); saving the figure succeeds or raises.
CreateProgressionVisualization(s, io_ok) ==
    /\ MayEnter(s, "visual")
    /\ IF water_depth[s].none THEN RaiseMissingPrerequisite(s, "visual")
       ELSE Return(s, "visual", ~io_ok)
    /\ UNCHANGED << apiVars, envVars, np_random_seed, fileVars, paramVars, dataVars, frame >>

\* generate_alerts_and_warnings(); the write of the alerts file succeeds or
\* raises.
GenerateAlertsAndWarnings(s, io_ok) ==
    /\ MayEnter(s, "alerts")
    /\ IF simulation_results[s].none
       THEN /\ RaiseMissingPrerequisite(s, "alerts")
            /\ UNCHANGED alerts_file
       ELSE /\ alerts_file' = IF io_ok THEN Some(AlertData(simulation_results[s].v))
                              ELSE alerts_file
            /\ IF io_ok THEN ReturnValue(s, "alerts", FALSE, alerts_file')
               ELSE Return(s, "alerts", TRUE)
    /\ UNCHANGED << apiVars, envVars, np_random_seed, results_file, paramVars, dataVars, frame >>

\* ------------------------------------------------- simulation manager (API)
\* src/main_code/simulation_api.py.  A process serves its requests on one
\* event loop: a request handler and a background task are coroutines, and
\* one runs from an await to the next before another starts.  The handler
\* of POST /api/simulation/start and run_simulation_async contain no await.
\* The manager of process m keeps its current simulation in object m.

\* datetime.now(): the month and hour on the wall clock, a tick of which is
\* five hours.
ClockDate(clock) == [month |-> 7, hour |-> (12 + 5 * clock) % 24]

\* The runs process m has accepted and not finished: the background tasks
\* waiting for the loop, and the one executing.
Unfinished(m) == event_loop[m].tasks + (IF event_loop[m].executing THEN 1 ELSE 0)

\* A POST /api/simulation/start reaches process m and waits for the loop;
\* it is marked if it arrives while an accepted run is unfinished.
PostStartArrives(m, limit) ==
    /\ Len(event_loop[m].pending) + Len(event_loop[m].responses) < limit
    /\ event_loop' = [event_loop EXCEPT ![m].pending = Append(@, Unfinished(m) > 0)]
    /\ UNCHANGED << envVars, np_random_seed, fileVars, paramVars, dataVars, frame, outcome,
                    pipeline, sim_manager >>

\* start_simulation: 400 if the status is 'running', else the run is added
\* to the background tasks and the response says it started.
StartSimulation(m) ==
    /\ ~event_loop[m].executing
    /\ event_loop[m].pending # << >>
    /\ event_loop' = [event_loop EXCEPT ![m] =
           LET during == Head(event_loop[m].pending)
           IN  IF sim_manager[m].simulation_status = "running"
               THEN [@ EXCEPT !.pending = Tail(@),
                              !.responses = Append(@, [code |-> 400, during |-> during])]
               ELSE [@ EXCEPT !.pending = Tail(@),
                              !.tasks = @ + 1,
                              !.responses = Append(@, [code |-> 200, during |-> during])]]
    /\ UNCHANGED << envVars, np_random_seed, fileVars, paramVars, dataVars, frame, outcome,
                    pipeline, sim_manager >>

\* run_simulation_async up to the call of run_complete_simulation: the
\* status, the new FloodSimulation starting now, the pipeline entered.
RunSimulationBegin(m) ==
    /\ ~event_loop[m].executing
    /\ event_loop[m].tasks > 0
    /\ event_loop' = [event_loop EXCEPT ![m].tasks = @ - 1, ![m].executing = TRUE]
    /\ sim_manager' = [sim_manager EXCEPT ![m].simulation_status = "running",
                                          ![m].current_simulation = TRUE]
    /\ start_date' = [start_date EXCEPT ![m] = ClockDate(now)]
    /\ simulation_days' = [simulation_days EXCEPT ![m] = MaxDays]
    /\ precipitation_forecast' = [precipitation_forecast EXCEPT ![m] = None]
    /\ water_depth' = [water_depth EXCEPT ![m] = None]
    /\ flood_extent' = [flood_extent EXCEPT ![m] = None]
    /\ simulation_results' = [simulation_results EXCEPT ![m] = None]
    /\ frame' = [frame EXCEPT ![m] = IdleFrame]
    /\ outcome' = [outcome EXCEPT ![m] = [call |-> "none", raised |-> FALSE, value |-> None]]
    /\ pipeline' = [pipeline EXCEPT ![m] = [pc |-> "forecast", log |-> << >>,
                                            result |-> "none"]]
    /\ UNCHANGED << envVars, np_random_seed, fileVars >>

\* A status that stays 'running' when the run failed.
RunStatusUnlessFailed(success) == IF success THEN "completed" ELSE "running"
\* if success: 'completed' else: 'error'; except Exception: 'error'
RunStatus(success) == IF success THEN "completed" ELSE "error"

\* run_simulation_async after run_complete_simulation returned: the status,
\* last_run, and the results read back from the results file if it exists;
\* reading it succeeds or raises (io_ok).
RunSimulationEnd(m, io_ok) ==
    /\ event_loop[m].executing
    /\ ~frame[m].active
    /\ pipeline[m].pc = "none"
    /\ pipeline[m].result \in {"true", "false"}
    /\ event_loop' = [event_loop EXCEPT ![m].executing = FALSE]
    /\ sim_manager' = [sim_manager EXCEPT ![m] =
           IF pipeline[m].result = "true"
           THEN IF results_file.none
                THEN [@ EXCEPT !.simulation_status = RunStatus(TRUE),
                               !.last_run = Some(now)]
                ELSE IF io_ok
                THEN [@ EXCEPT !.simulation_status = RunStatus(TRUE),
                               !.last_run = Some(now),
                               !.results_cache = results_file]
                ELSE [@ EXCEPT !.simulation_status = RunStatus(FALSE),
                               !.last_run = Some(now)]
           ELSE [@ EXCEPT !.simulation_status = RunStatus(FALSE)]]
    /\ pipeline' = [pipeline EXCEPT ![m] = NoPipeline]
    /\ UNCHANGED << envVars, np_random_seed, fileVars, paramVars, dataVars, frame, outcome >>

\* The stages of the run_complete_simulation that process m executes.
RunStage(m) ==
    \/ (Piped(m, "forecast") /\ GenerateBegin(m))
    \/ GenerateStep(m)
    \/ GenerateFinish(m)
    \/ (Piped(m, "hydro") /\ SimulateBegin(m))
    \/ SimulateStep(m)
    \/ SimulateFinish(m)
    \/ \E io_ok \in BOOLEAN : Piped(m, "analysis") /\ AnalyzeFloodProgression(m, io_ok)
    \/ \E io_ok \in BOOLEAN : Piped(m, "visual") /\ CreateProgressionVisualization(m, io_ok)
    \/ \E io_ok \in BOOLEAN : Piped(m, "alerts") /\ GenerateAlertsAndWarnings(m, io_ok)

\* ============================================================ specifications
\* One FloodSimulation object with a horizon of one day, and its caller.
\* The caller either calls
\* run_complete_simulation on the new object, or calls the stage methods
\* directly in any order: analysis, visualization and alerts at any time and
\* again, the forecast (generated, or supplied on a grid of the caller's
\* size) and the simulation until they produced data.
ForecastSizes == { N, 1, N - 1 }

Init ==
    /\ stream \in Streams
    /\ dem \in DemFiles
    /\ start_date = [s \in SimIds |-> [month |-> 7, hour |-> 12]]
    /\ simulation_days = [s \in SimIds |-> 1]
    /\ InitObjects
    /\ InitFiles
    /\ InitApi

Next ==
    \/ /\ Direct("A")
       /\ outcome["A"].call = "none"
       /\ precipitation_forecast["A"].none
       /\ RunCompleteSimulation("A")
    \/ /\ Piped("A", "forecast") \/ (Direct("A") /\ precipitation_forecast["A"].none)
       /\ GenerateBegin("A")
    \/ GenerateStep("A")
    \/ GenerateFinish("A")
    \/ \E n \in ForecastSizes : Direct("A") /\ SupplyForecast("A", "steady", n)
    \/ /\ Piped("A", "hydro") \/ (Direct("A") /\ water_depth["A"].none)
       /\ SimulateBegin("A")
    \/ SimulateStep("A")
    \/ SimulateFinish("A")
    \/ \E io_ok \in BOOLEAN :
           /\ Piped("A", "analysis") \/ Direct("A")
           /\ AnalyzeFloodProgression("A", io_ok)
    \/ \E io_ok \in BOOLEAN :
           /\ Piped("A", "visual") \/ Direct("A")
           /\ CreateProgressionVisualization("A", io_ok)
    \/ \E io_ok \in BOOLEAN :
           /\ Piped("A", "alerts") \/ Direct("A")
           /\ GenerateAlertsAndWarnings("A", io_ok)

Spec == Init /\ [][Next]_vars

\* The hydrological engine alone, called once on a forecast the caller
\* supplies.
InitHydro ==
    /\ stream \in Streams
    /\ dem \in DemFiles
    /\ start_date \in [SimIds -> {d \in StartDates : d.month = 7}]
    /\ start_date["B"] = start_date["A"]
    /\ simulation_days \in [SimIds -> 1 .. MaxDays]
    /\ simulation_days["B"] = simulation_days["A"]
    /\ InitObjects
    /\ InitFiles
    /\ InitApi

NextHydro ==
    \/ \E pattern \in RainPatterns : SupplyForecast("A", pattern, N)
    \/ (~precipitation_forecast["A"].none /\ water_depth["A"].none /\ SimulateBegin("A"))
    \/ SimulateStep("A")
    \/ SimulateFinish("A")

SpecHydro == InitHydro /\ [][NextHydro]_vars

\* The hydrological engine, called once, with the redistribution loops of
\* each timestep run in any of the orders of Visits.
InitFlow ==
    /\ stream \in Streams
    /\ dem \in DemFiles
    /\ start_date = [s \in SimIds |-> [month |-> 7, hour |-> 12]]
    /\ simulation_days = [s \in SimIds |-> 1]
    /\ InitObjects
    /\ InitFiles
    /\ InitApi

NextFlow ==
    \/ \E pattern \in RainPatterns : SupplyForecast("A", pattern, N)
    \/ (~precipitation_forecast["A"].none /\ water_depth["A"].none /\ SimulateBegin("A"))
    \/ \E visit \in Visits : SimulateStepIn("A", visit)
    \/ SimulateFinish("A")

SpecFlow == InitFlow /\ [][NextFlow]_vars

\* Two FloodSimulation objects of one process with a horizon of one day, A
\* run to the end before B starts, later on the clock; each gets its
\* forecast once, generated or supplied.
PairPatterns == { "late burst", "drizzle then burst" }

InitPair ==
    /\ stream \in Streams
    /\ dem \in {d \in DemFiles : ~d.file \/ d.relief = "peak"}
    /\ start_date \in [SimIds -> {d \in StartDates : d.month = 7}]
    /\ simulation_days = [s \in SimIds |-> 1]
    /\ InitObjects
    /\ InitFiles
    /\ InitApi

Turn(s) == s = "A" \/ (~water_depth["A"].none /\ now > 0)

NextPair ==
    \/ \E s \in SimIds :
           /\ Turn(s)
           /\ precipitation_forecast[s].none
           /\ GenerateBegin(s)
    \/ \E s \in SimIds : GenerateStep(s)
    \/ \E s \in SimIds : GenerateFinish(s)
    \/ \E s \in SimIds : \E pattern \in PairPatterns :
           /\ Turn(s)
           /\ SupplyForecast(s, pattern, N)
    \/ \E s \in SimIds :
           /\ Turn(s)
           /\ ~precipitation_forecast[s].none
           /\ water_depth[s].none
           /\ SimulateBegin(s)
    \/ \E s \in SimIds : SimulateStep(s)
    \/ \E s \in SimIds : SimulateFinish(s)
    \/ (~water_depth["A"].none /\ precipitation_forecast["B"].none /\ Tick)

SpecPair == InitPair /\ [][NextPair]_vars

\* The progression analyzer alone, on an object whose simulation has
\* produced depths: one day peaks in one cell at one hour, at a depth at,
\* next to, or away from the risk boundaries, over a dry or shallow
\* background; the other days stay shallow.
DepthLevels ==
    { 0, 12000, 49960, 49999, 50000, 50001, 199999, 200000, 200001, 499999, 500000,
      500001, 900000 }
ShallowDepth == 4000
PeakShapes ==
    { [cell |-> <<0, 0>>, hour |-> 0, background |-> 0],
      [cell |-> <<1, 2>>, hour |-> 0, background |-> ShallowDepth],
      [cell |-> <<1, 2>>, hour |-> HoursPerDay - 1, background |-> 0],
      [cell |-> <<0, 0>>, hour |-> HoursPerDay - 1, background |-> ShallowDepth] }

PeakedDepth(days, day, level, shape) ==
    [t \in 0 .. (TimestepsOf(days) - 1) |->
        [c \in Cells |->
            IF t \div HoursPerDay = day - 1
            THEN IF t % HoursPerDay = shape.hour /\ c = shape.cell THEN level
                 ELSE Min2(shape.background, level)
            ELSE ShallowDepth]]

InitAnalyze ==
    /\ stream = <<0>>
    /\ dem = CHOOSE d \in DemFiles : ~d.file
    /\ start_date = [s \in SimIds |-> [month |-> 7, hour |-> 12]]
    /\ simulation_days = [s \in SimIds |-> MaxDays]
    /\ precipitation_forecast =
           [s \in SimIds |-> Some(SuppliedForecast("steady", N, TimestepsOf(MaxDays)))]
    /\ \E day \in 1 .. MaxDays, level \in DepthLevels, shape \in PeakShapes :
           /\ water_depth =
                  [s \in SimIds |-> Some(PeakedDepth(MaxDays, day, level, shape))]
           /\ flood_extent =
                  [s \in SimIds |->
                      Some([t \in 0 .. (TimestepsOf(MaxDays) - 1) |->
                               [c \in Cells |-> FloodExtent(water_depth[s].v[t][c])]])]
    /\ simulation_results = [s \in SimIds |-> None]
    /\ frame = [s \in SimIds |-> IdleFrame]
    /\ outcome = [s \in SimIds |-> [call |-> "none", raised |-> FALSE, value |-> None]]
    /\ pipeline = [s \in SimIds |-> NoPipeline]
    /\ InitFiles
    /\ InitApi

NextAnalyze == \E io_ok \in BOOLEAN : AnalyzeFloodProgression("A", io_ok)

SpecAnalyze == InitAnalyze /\ [][NextAnalyze]_vars

\* The analyzer and the alert generator on an object whose simulation ran
\* over AlertDays days, each day with one cell under water for one hour at
\* a depth of its own.
AlertDays == 2
AlertLevels == { 0, 10040, 12000, 120000, 300000, 900000 }

DayLevelsDepth(levels) ==
    [t \in 0 .. (TimestepsOf(Len(levels)) - 1) |->
        [c \in Cells |-> IF t % HoursPerDay = 1 /\ c = <<1, 2>>
                         THEN levels[(t \div HoursPerDay) + 1] ELSE 0]]

InitAlerts ==
    /\ stream = <<0>>
    /\ dem = CHOOSE d \in DemFiles : ~d.file
    /\ start_date = [s \in SimIds |-> [month |-> 7, hour |-> 12]]
    /\ simulation_days = [s \in SimIds |-> AlertDays]
    /\ precipitation_forecast =
           [s \in SimIds |-> Some(SuppliedForecast("steady", N, TimestepsOf(AlertDays)))]
    /\ \E levels \in [1 .. AlertDays -> AlertLevels] :
           /\ water_depth = [s \in SimIds |-> Some(DayLevelsDepth(levels))]
           /\ flood_extent =
                  [s \in SimIds |->
                      Some([t \in 0 .. (TimestepsOf(AlertDays) - 1) |->
                               [c \in Cells |-> FloodExtent(water_depth[s].v[t][c])]])]
    /\ simulation_results = [s \in SimIds |-> None]
    /\ frame = [s \in SimIds |-> IdleFrame]
    /\ outcome = [s \in SimIds |-> [call |-> "none", raised |-> FALSE, value |-> None]]
    /\ pipeline = [s \in SimIds |-> NoPipeline]
    /\ InitFiles
    /\ InitApi

NextAlerts ==
    \/ \E io_ok \in BOOLEAN : AnalyzeFloodProgression("A", io_ok)
    \/ \E io_ok \in BOOLEAN :
           /\ ~simulation_results["A"].none
           /\ GenerateAlertsAndWarnings("A", io_ok)

SpecAlerts == InitAlerts /\ [][NextAlerts]_vars

\* The stages called one after the other by the caller, each once its
\* prerequisite exists, on a forecast the caller supplies: no rain at all,
\* steady rain, or a storm of one hour over one cell.
ScenarioPatterns == { "dry", "steady", "cell storm", "border storm" }
\* The streams of the process, and one more that gives cell (1, 1) the
\* lowest runoff coefficient and nearly the highest infiltration, outside
\* the urban patches.
ScenarioStreams == Streams \cup { << 0, 600, 100, 300, 700, 999, 200 >> }

InitScenario ==
    /\ stream \in ScenarioStreams
    /\ dem \in DemFiles
    /\ start_date \in [SimIds -> StartDates]
    /\ start_date["B"] = start_date["A"]
    /\ simulation_days \in [SimIds -> 1 .. MaxDays]
    /\ simulation_days["B"] = simulation_days["A"]
    /\ InitObjects
    /\ InitFiles
    /\ InitApi

NextScenario ==
    \/ \E pattern \in ScenarioPatterns : SupplyForecast("A", pattern, N)
    \/ (~precipitation_forecast["A"].none /\ water_depth["A"].none /\ SimulateBegin("A"))
    \/ SimulateStep("A")
    \/ SimulateFinish("A")
    \/ \E io_ok \in BOOLEAN :
           /\ ~water_depth["A"].none
           /\ simulation_results["A"].none
           /\ AnalyzeFloodProgression("A", io_ok)
    \/ \E io_ok \in BOOLEAN :
           /\ ~simulation_results["A"].none
           /\ GenerateAlertsAndWarnings("A", io_ok)

SpecScenario == InitScenario /\ [][NextScenario]_vars

\* One process serving POST /api/simulation/start: up to MaxRequests
\* requests arrive at any time, and the event loop runs the handler and the
\* background tasks one at a time.
MaxRequests == 2

InitManager ==
    /\ stream \in Streams
    /\ dem = CHOOSE d \in DemFiles : ~d.file
    /\ start_date = [s \in SimIds |-> ClockDate(0)]
    /\ simulation_days = [s \in SimIds |-> MaxDays]
    /\ InitObjects
    /\ InitFiles
    /\ InitApi

RunTask(m) ==
    \/ RunSimulationBegin(m)
    \/ RunStage(m)
    \/ \E io_ok \in BOOLEAN : RunSimulationEnd(m, io_ok)

NextManager ==
    \/ PostStartArrives("A", MaxRequests)
    \/ StartSimulation("A")
    \/ RunTask("A")
    \/ (~event_loop["A"].executing /\ Tick)

SpecManager == InitManager /\ [][NextManager]_vars

\* Process m is inside run_complete_simulation: a stage is to be entered or
\* is running.  In every such state a step of RunStage(m) is possible.
InStage(m) == event_loop[m].executing /\ pipeline[m].pc # "none"

\* The same process, its event loop never leaving a background task
\* waiting, and a task that executes running on to its end: weak
\* fairness of the three parts of the task, that of the stages written
\* out with InStage for their enabling condition.
SpecManagerLive ==
    /\ SpecManager
    /\ WF_vars(RunSimulationBegin("A"))
    /\ ([]<>(~InStage("A")) \/ []<><<RunStage("A")>>_vars)
    /\ WF_vars(\E io_ok \in BOOLEAN : RunSimulationEnd("A", io_ok))

\* Two processes in one working directory, each serving one start request.
\* Their runs interleave stage by stage: a stage, once entered, runs to its
\* end before the other process moves.
InitConcurrent == InitManager

NextConcurrent ==
    \/ \E m \in SimIds :
           /\ \A o \in SimIds \ {m} : ~frame[o].active
           /\ \/ PostStartArrives(m, 1)
              \/ StartSimulation(m)
              \/ RunTask(m)
    \/ Tick

SpecConcurrent == InitConcurrent /\ [][NextConcurrent]_vars

\* ================================================= hydrological engine properties
\* The timestep the running simulate_hydrological_response of object s has
\* just completed, if any: every timestep of a call is the last one
\* completed in some state.
StepsDone(s) == IF Running(s, "hydro") /\ frame[s].t > 0 THEN {frame[s].t - 1} ELSE {}

\* net_input of timestep t in the running call of object s.
NetInputAt(s, t, c) ==
    NetInput(CurrentPrecip(precipitation_forecast[s].v, t)[c], frame[s].land.runoff[c])

\* C1: every entry of the water-depth array is >= 0, in the row a running
\* call has just written and in the array a completed call has assigned.
C1_DepthNonNegative ==
    \A s \in SimIds :
        /\ \A t \in StepsDone(s) : \A c \in Cells : frame[s].water_depth[t][c] >= 0
        /\ ~water_depth[s].none =>
               \A t \in DOMAIN water_depth[s].v : \A c \in Cells :
                   water_depth[s].v[t][c] >= 0

\* C1 witness: a source cell gave away at least all its water in the last
\* step (its water_change is negative and its depth ended at 0) while
\* another cell holds water.
C1_SourceDrained ==
    /\ Running("A", "hydro")
    /\ frame["A"].t > 1
    /\ \E c \in Interior :
           /\ frame["A"].water_change[c] < 0
           /\ frame["A"].water_depth[frame["A"].t - 1][c] = 0
    /\ \E c \in Cells : frame["A"].water_depth[frame["A"].t - 1][c] > 0

\* C2 as stated: for every cell and every t >= 1,
\* depth[t] <= depth[t-1] + net_input[t].
C2_CellBound ==
    \A s \in SimIds : \A t \in StepsDone(s) : \A c \in Cells :
        t >= 1 => frame[s].water_depth[t][c]
                      <= frame[s].water_depth[t - 1][c] + NetInputAt(s, t, c)

\* C2 amended: at t = 0 a cell's depth is at most its net input; for t >= 1
\* the depth summed over the grid is at most 1.2 times the sum over the grid
\* of depth[t-1] + net_input[t] (the depression factor raises a cell's water
\* by up to 20 %, redistribution moves water between cells and loses 20 %).
C2_GridBound ==
    \A s \in SimIds : \A t \in StepsDone(s) :
        IF t = 0
        THEN \A c \in Cells : frame[s].water_depth[0][c] <= NetInputAt(s, 0, c)
        ELSE SumOver(frame[s].water_depth[t], Cells)
                 <= Mul(SumOver([c \in Cells |->
                            frame[s].water_depth[t - 1][c] + NetInputAt(s, t, c)], Cells),
                        1200)

\* C2 witness: after a step t >= 1 a cell holds more water than it held
\* before plus its own net input.
C2_CellGained ==
    /\ Running("A", "hydro")
    /\ \E t \in StepsDone("A") : \E c \in Cells :
           /\ t >= 1
           /\ frame["A"].water_depth[t][c]
                  > frame["A"].water_depth[t - 1][c] + NetInputAt("A", t, c)

\* C3 as stated: the water_change entry of every border cell stays 0.
C3_BorderUntouched ==
    \A s \in SimIds : Running(s, "hydro") =>
        \A c \in Cells : IsBorder(c) => frame[s].water_change[c] = 0

\* C3 amended: a border cell is never a flow source (its water_change entry
\* is never negative); it can be a destination of an interior neighbour.
C3_BorderNeverSource ==
    \A s \in SimIds : Running(s, "hydro") =>
        \A c \in Cells : IsBorder(c) => frame[s].water_change[c] >= 0

\* C3 witness: a border cell above the source threshold received flow in the
\* last step and gave none.
C3_BorderReceived ==
    /\ Running("A", "hydro")
    /\ \E c \in Cells :
           /\ IsBorder(c)
           /\ frame["A"].water_change[c] > 0
           /\ frame["A"].water_depth[frame["A"].t - 1][c] > FlowThreshold

\* Depths at, next to and away from the flood-extent thresholds.
ExtentLevels ==
    { 0, 4999, 5000, 5001, 9999, 10000, 10001, 19999, 20000, 20001, 75000 }

\* The class the thresholds 5, 10 and 20 mm give a depth.
ExtentClassOf(depth, class) ==
    /\ class \in 0 .. 3
    /\ class = 3 <=> depth > 20000
    /\ class = 2 <=> (10000 < depth /\ depth <= 20000)
    /\ class = 1 <=> (5000 < depth /\ depth <= 10000)
    /\ class = 0 <=> depth <= 5000

\* C11: the flood_extent row of a timestep is, cell by cell, the class of
\* the final depth of that timestep: 3 iff depth > 20, 2 iff 10 < depth <= 20,
\* 1 iff 5 < depth <= 10, 0 otherwise; so it is in the row a running call has
\* just written and in the arrays a completed call has assigned; and the
\* class never decreases as the depth grows.
C11_ExtentFromFinalDepth ==
    /\ \A s \in SimIds :
           /\ \A t \in StepsDone(s) : \A c \in Cells :
                  ExtentClassOf(frame[s].water_depth[t][c], frame[s].flood_extent[t][c])
           /\ ~water_depth[s].none =>
                  \A t \in DOMAIN water_depth[s].v : \A c \in Cells :
                      ExtentClassOf(water_depth[s].v[t][c], flood_extent[s].v[t][c])
    /\ \A x \in ExtentLevels :
           /\ ExtentClassOf(x, FloodExtent(x))
           /\ \A y \in ExtentLevels : x > y => FloodExtent(x) >= FloodExtent(y)

\* C11 witness: a timestep with redistribution left cells of class 1, 2
\* and 3, one of them a cell that received flow.
C11_AllClasses ==
    /\ Running("A", "hydro")
    /\ frame["A"].t > 1
    /\ \A k \in 1 .. 3 : \E c \in Cells : frame["A"].flood_extent[frame["A"].t - 1][c] = k
    /\ \E c \in Cells :
           /\ frame["A"].water_change[c] > 0
           /\ frame["A"].flood_extent[frame["A"].t - 1][c] > 0

\* The update of the timestep the running call of object s has just
\* completed, computed again from the state before it with the loops in the
\* code's order.
CodeOrderStep(s) ==
    LET f == frame[s]
        u == f.t - 1
    IN  StepWater(u, PrevWater(f.water_depth, u),
                  CurrentPrecip(precipitation_forecast[s].v, u),
                  HourOf(start_date[s], u), f.land, f.elevation, stream,
                  IF u > 0 THEN f.rng - N * N ELSE f.rng)

\* C4: whatever the order in which a timestep visited the source cells and
\* their neighbours, the depths and the water_change it produced are those
\* the code's order produces from the same state.
C4_OrderIndependent ==
    \A s \in SimIds : \A u \in StepsDone(s) :
        /\ frame[s].water_depth[u] = CodeOrderStep(s).water
        /\ frame[s].water_change = CodeOrderStep(s).change

\* C4 witness: a timestep run in another order than the code's in which two
\* source cells gave flow and a cell received some.
C4_ReorderedFlow ==
    /\ Running("A", "hydro")
    /\ frame["A"].t > 1
    /\ frame["A"].reordered
    /\ \E c, d \in Interior :
           /\ c # d
           /\ frame["A"].water_change[c] < 0
           /\ frame["A"].water_change[d] < 0
    /\ \E c \in Cells : frame["A"].water_change[c] > 0

\* C20: the timestep loop is sequential and write-once: the timesteps are
\* processed in increasing order from 0, one per iteration; the iteration
\* for t writes row t of water_depth and of flood_extent, which nothing
\* wrote before, and changes no other row, so none of an earlier timestep.
C20_SequentialWriteOnce ==
    [][ SimulateStep("A") =>
            LET f == frame["A"]
                g == frame'["A"]
            IN  /\ g.active
                /\ g.t = f.t + 1
                /\ \A u \in DOMAIN f.water_depth :
                       /\ u # f.t => /\ g.water_depth[u] = f.water_depth[u]
                                     /\ g.flood_extent[u] = f.flood_extent[u]
                       /\ u >= f.t => /\ f.water_depth[u] = Zeros
                                      /\ f.flood_extent[u] = Zeros
                       /\ u > f.t => /\ g.water_depth[u] = Zeros
                                     /\ g.flood_extent[u] = Zeros ]_vars

\* C20 witness: the loop is about to run its third iteration, the first
\* two rows hold different depths and classes above 0, and the
\* rows from the third on are still zero.
C20_TwoRowsWritten ==
    /\ Running("A", "hydro")
    /\ frame["A"].t = 2
    /\ frame["A"].water_depth[0] # Zeros
    /\ frame["A"].water_depth[1] # frame["A"].water_depth[0]
    /\ frame["A"].flood_extent[0] # Zeros
    /\ frame["A"].flood_extent[1] # frame["A"].flood_extent[0]
    /\ \A u \in DOMAIN frame["A"].water_depth :
           u >= 2 => frame["A"].water_depth[u] = Zeros

\* The depth is 0 or at least floor.
DryOrAbove(depth, floor) == depth = 0 \/ depth >= floor

\* C23 as stated: for every timestep and cell, water_depth[t] is exactly 0
\* or at least the cell's retention floor
\* 0.5 + 0.5 * (infiltration / base_infiltration).
C23_NoWaterBelowFloor ==
    Running("A", "hydro") =>
        \A u \in 0 .. (frame["A"].t - 1) : \A c \in Cells :
            DryOrAbove(frame["A"].water_depth[u][c],
                       RetentionThreshold(frame["A"].land.infiltration[c]))

\* C23 amended: the floor holds for the depths of timestep 0, where nothing
\* follows the retention threshold.  At a later timestep a cell that flow
\* redistribution left alone holds 0 or at least 0.8 of its floor, the
\* least depression factor; a cell that flow reached can hold any depth.
C23_FloorBeforePooling ==
    (Running("A", "hydro") /\ frame["A"].t >= 1) =>
        LET f == frame["A"]
            u == f.t - 1
        IN  \A c \in Cells :
                /\ DryOrAbove(f.water_depth[0][c], RetentionThreshold(f.land.infiltration[c]))
                /\ (u > 0 /\ f.water_change[c] = 0) =>
                       DryOrAbove(f.water_depth[u][c],
                                  Mul(RetentionThreshold(f.land.infiltration[c]), 800))

\* C23 witness: after a timestep past the first, one cell that flow left
\* alone and one cell that flow reached both hold water below their floors.
C23_WaterBelowFloor ==
    /\ Running("A", "hydro")
    /\ frame["A"].t >= 2
    /\ LET f == frame["A"]
           below(c) == /\ f.water_depth[f.t - 1][c] > 0
                       /\ f.water_depth[f.t - 1][c] < RetentionThreshold(f.land.infiltration[c])
       IN  /\ \E c \in Cells : below(c) /\ f.water_change[c] = 0
           /\ \E c \in Cells : below(c) /\ f.water_change[c] > 0
           /\ \E c \in Cells : f.water_depth[0][c] >= RetentionThreshold(f.land.infiltration[c])

\* The provisional depth of cell c at timestep u >= 1 of the running
\* simulation of object s: new_water after the water balance and the
\* retention threshold.
BalancedDepth(s, u, c) ==
    LET f == frame[s]
    IN  ProvisionalDepth(f.land.infiltration[c], f.water_depth[u - 1][c],
                         NetInput(CurrentPrecip(precipitation_forecast[s].v, u)[c],
                                  f.land.runoff[c]),
                         HourOf(start_date[s], u))

\* new_water of cell c as the redistribution loops of that timestep find
\* it, the generator being at rng after the step.
PooledDepth(s, u, c, rng) ==
    Mul(BalancedDepth(s, u, c), DepressionFactor(stream, rng - N * N, c))

\* C24 as stated: at t = 0 redistribution changes no depth, and at t > 0 a
\* cell whose provisional depth is at most 3 mm emits no flow.
C24_FlowOnlyAboveProvisional ==
    (Running("A", "hydro") /\ frame["A"].t >= 1) =>
        LET f == frame["A"]
            u == f.t - 1
        IN  IF u = 0 THEN f.water_change = Zeros
            ELSE \A c \in Cells :
                     BalancedDepth("A", u, c) <= FlowThreshold => f.water_change[c] >= 0

\* C24 amended: the step for t = 0 changes no depth by redistribution, and
\* in a step for t > 0 a cell whose depth after the depression factor,
\* the depth the redistribution loops read, is at most 3 mm, and any border
\* cell, emits no flow.
C24_FlowOnlyAboveThreshold ==
    (Running("A", "hydro") /\ frame["A"].t >= 1) =>
        LET f == frame["A"]
            u == f.t - 1
        IN  IF u = 0
            THEN /\ f.water_change = Zeros
                 /\ \A c \in Cells :
                        f.water_depth[0][c] =
                            ProvisionalDepth(f.land.infiltration[c], 0,
                                NetInput(CurrentPrecip(precipitation_forecast["A"].v, 0)[c],
                                         f.land.runoff[c]),
                                HourOf(start_date["A"], 0))
            ELSE \A c \in Cells :
                     (PooledDepth("A", u, c, f.rng) <= FlowThreshold \/ IsBorder(c)) =>
                         f.water_change[c] >= 0

\* C24 witness: in one step past the first, an interior cell holding water,
\* but no more than 3 mm, above a lower neighbour emitted nothing, while a
\* cell holding more than 3 mm emitted flow; and the first step left a cell
\* with more than 3 mm above a dry neighbour.
C24_ShallowCellKept ==
    /\ Running("A", "hydro")
    /\ frame["A"].t >= 2
    /\ LET f == frame["A"]
           u == f.t - 1
       IN  /\ \E c \in Interior :
                  /\ PooledDepth("A", u, c, f.rng) > 0
                  /\ PooledDepth("A", u, c, f.rng) <= FlowThreshold
                  /\ f.water_change[c] = 0
                  /\ \E k \in 1 .. 8 :
                         LET n == Neighbors(c)[k]
                         IN  f.elevation[n] + PooledDepth("A", u, n, f.rng)
                                 < f.elevation[c] + PooledDepth("A", u, c, f.rng)
           /\ \E c \in Interior : f.water_change[c] < 0
           /\ \E c \in Interior : \E k \in 1 .. 8 :
                  /\ f.water_depth[0][c] > FlowThreshold
                  /\ f.water_depth[0][Neighbors(c)[k]] = 0
                  /\ f.elevation[Neighbors(c)[k]] <= f.elevation[c]

\* Cell n is one of the 8 neighbours of cell c.
Adjacent(c, n) ==
    /\ n # c
    /\ c[1] - n[1] \in -1 .. 1
    /\ c[2] - n[2] \in -1 .. 1

\* new_water of every cell as the redistribution loops of timestep u find it.
PooledField(s, u, rng) == [c \in Cells |-> PooledDepth(s, u, c, rng)]

\* What cell c sends to its neighbour n in a redistribution that finds the
\* depths pooled: nothing unless c is an interior cell above the flow
\* threshold whose head is above the head of n.
FlowBetween(s, pooled, c, n) ==
    LET f == frame[s]
        depth == pooled[c]
        diff == (f.elevation[c] + depth) - (f.elevation[n] + pooled[n])
    IN  IF c \in Interior /\ depth > FlowThreshold /\ diff > 0
        THEN Min2(Mul(Mul(depth, 150 + (100 * f.land.runoff[c]) \div BaseRunoff), 400),
                  Mul(diff, 300))
        ELSE 0

\* What cell c sends to its neighbour n in the redistribution of timestep
\* u >= 1.
FlowSent(s, u, c, n, rng) == FlowBetween(s, PooledField(s, u, rng), c, n)

\* The flows out of cell c, and the shares of the flows into it, in that
\* redistribution.
FlowOut(s, pooled, c) ==
    SumOver([n \in Cells |-> FlowBetween(s, pooled, c, n)], {n \in Cells : Adjacent(c, n)})
FlowIn(s, pooled, c) ==
    SumOver([n \in Cells |-> Mul(FlowBetween(s, pooled, n, c), 800)],
            {n \in Cells : Adjacent(c, n)})

\* C25: a source sends flow to a neighbour only if its head (elevation +
\* depth) is strictly above the neighbour's; the amount is
\* min(depth * flow_factor * 0.4, head difference * 0.3); the source loses
\* the full amount and the neighbour gains 80 % of it, so that the
\* redistribution of a timestep takes from the grid the 20 % of all flows.
C25_FlowAmounts ==
    (Running("A", "hydro") /\ frame["A"].t >= 2) =>
        LET f == frame["A"]
            u == f.t - 1
            pooled == PooledField("A", u, f.rng)
            out == [c \in Cells |-> FlowOut("A", pooled, c)]
            in == [c \in Cells |-> FlowIn("A", pooled, c)]
            lost == SumOver(out, Cells) - SumOver(in, Cells)
        IN  /\ pooled \in [Cells -> Nat]
            /\ out \in [Cells -> Nat]
            /\ in \in [Cells -> Nat]
            /\ \A c \in Cells : f.water_change[c] = in[c] - out[c]
            /\ SumOver(f.water_change, Cells) = - lost
            /\ 5 * lost >= SumOver(out, Cells)
            /\ 5 * lost < SumOver(out, Cells) + 5 * 8 * N * N

\* C25 witness: a redistribution in which one source sent flow to a lower
\* neighbour and none to a neighbour that is not lower, one flow was
\* limited by the depth and one by the head difference.
C25_BothLimits ==
    /\ Running("A", "hydro")
    /\ frame["A"].t >= 2
    /\ LET f == frame["A"]
           u == f.t - 1
           head(c) == f.elevation[c] + PooledDepth("A", u, c, f.rng)
           byDepth(c) ==
               Mul(Mul(PooledDepth("A", u, c, f.rng),
                       150 + (100 * f.land.runoff[c]) \div BaseRunoff), 400)
       IN  /\ \E c \in Interior : \E n, m \in Cells :
                  /\ Adjacent(c, n) /\ Adjacent(c, m)
                  /\ PooledDepth("A", u, c, f.rng) > FlowThreshold
                  /\ FlowSent("A", u, c, n, f.rng) > 0
                  /\ head(m) >= head(c)
                  /\ FlowSent("A", u, c, m, f.rng) = 0
           /\ \E c \in Interior : \E n \in Cells :
                  /\ Adjacent(c, n)
                  /\ FlowSent("A", u, c, n, f.rng) > 0
                  /\ FlowSent("A", u, c, n, f.rng) = byDepth(c)
                  /\ byDepth(c) < Mul(head(c) - head(n), 300)
           /\ \E c \in Interior : \E n \in Cells :
                  /\ Adjacent(c, n)
                  /\ FlowSent("A", u, c, n, f.rng) > 0
                  /\ FlowSent("A", u, c, n, f.rng) < byDepth(c)

\* C26: in one timestep the flows a source sends to its neighbours sum to at
\* most the depth it held before redistribution, so that depth +
\* water_change is never negative and the clamp after redistribution never
\* raises a depth.
C26_SourceNotOverdrawn ==
    (Running("A", "hydro") /\ frame["A"].t >= 2) =>
        LET f == frame["A"]
            u == f.t - 1
        IN  \A c \in Cells :
                /\ FlowOut("A", PooledField("A", u, f.rng), c) <= PooledDepth("A", u, c, f.rng)
                /\ PooledDepth("A", u, c, f.rng) + f.water_change[c] >= 0
                /\ f.water_depth[u][c] = PooledDepth("A", u, c, f.rng) + f.water_change[c]

\* ======================================================== properties of two runs
\* Run A has ended and the running call of B has just completed timestep u
\* (u >= 1), the two agreeing on depth[u-1] and on precipitation[u]; the
\* terrain and the land-surface fields are those of the process.
SameStepInputs(u) ==
    /\ ~water_depth["A"].none
    /\ u \in StepsDone("B")
    /\ u >= 1
    /\ water_depth["A"].v[u - 1] = frame["B"].water_depth[u - 1]
    /\ CurrentPrecip(precipitation_forecast["A"].v, u)
           = CurrentPrecip(precipitation_forecast["B"].v, u)

\* C5 as stated: two executions that agree on depth[t-1], precipitation[t]
\* and the static fields produce the same depth[t].
C5_StrictMarkov ==
    \A u \in StepsDone("B") :
        SameStepInputs(u) => frame["B"].water_depth[u] = water_depth["A"].v[u]

\* C5 amended: depth[t] is derived from depth[t-1], precipitation[t], the
\* static fields and the evaporation rate of the hour of day of step t (and
\* the step's depression factors, the same draws for step t of every run):
\* two executions that agree on these produce the same depth[t], whatever
\* happened in earlier steps.
C5_MarkovGivenHour ==
    \A u \in StepsDone("B") :
        ( /\ SameStepInputs(u)
          /\ ActualEvaporation(HourOf(start_date["A"], u))
                 = ActualEvaporation(HourOf(start_date["B"], u)) )
            => frame["B"].water_depth[u] = water_depth["A"].v[u]

\* C5 witness: two executions whose depths differed in an earlier step
\* agree on the inputs of step u and on its hour, and step u leaves water.
C5_HistoriesDiffer ==
    \E u \in StepsDone("B") :
        /\ SameStepInputs(u)
        /\ start_date["A"] = start_date["B"]
        /\ \E v \in 0 .. (u - 1) : water_depth["A"].v[v] # frame["B"].water_depth[v]
        /\ \E c \in Cells : frame["B"].water_depth[u][c] > 0

\* The forecast of object s is the one generate_weather_forecast built.
Generated(s) ==
    /\ ~precipitation_forecast[s].none
    /\ precipitation_forecast[s].v.title = "Flood Simulation Weather Forecast"

\* C6: two runs with the same start time and horizon (the seed, the grid
\* size and the terrain being those of the process) hold identical
\* precipitation arrays, and identical water-depth and flood-extent arrays
\* once both have simulated.
C6_Deterministic ==
    ( /\ start_date["A"] = start_date["B"]
      /\ simulation_days["A"] = simulation_days["B"]
      /\ Generated("A")
      /\ Generated("B") )
        => /\ precipitation_forecast["A"].v.precipitation
                  = precipitation_forecast["B"].v.precipitation
           /\ (~water_depth["A"].none /\ ~water_depth["B"].none)
                  => /\ water_depth["A"] = water_depth["B"]
                     /\ flood_extent["A"] = flood_extent["B"]

\* C6 witness: the second of two such runs started later on the clock, both
\* have simulated, and the forecast holds rain that left water.
C6_RepeatedRun ==
    /\ start_date["A"] = start_date["B"]
    /\ Generated("A")
    /\ Generated("B")
    /\ now > 0
    /\ ~water_depth["A"].none
    /\ ~water_depth["B"].none
    /\ \E t \in DOMAIN water_depth["B"].v : \E c \in Cells : water_depth["B"].v[t][c] > 0

\* The array is of shape (steps, N, N) and holds no negative entry.
RainArray(precipitation, steps) ==
    /\ DOMAIN precipitation = 0 .. (steps - 1)
    /\ \A t \in DOMAIN precipitation :
           /\ DOMAIN precipitation[t] = Cells
           /\ \A c \in Cells : precipitation[t][c] >= 0

\* C18: the precipitation array of generate_weather_forecast, while the
\* timestep loop fills it and once it is assigned, is of shape (H, N, N) and
\* holds no negative entry.
C18_RainNonNegative ==
    \A s \in SimIds :
        /\ Running(s, "forecast") =>
               RainArray(frame[s].precipitation, TimestepsOf(simulation_days[s]))
        /\ Generated(s) =>
               /\ precipitation_forecast[s].v.n = N
               /\ RainArray(precipitation_forecast[s].v.precipitation,
                            TimestepsOf(simulation_days[s]))

\* C18 witness: a generated forecast with a timestep in which the storms
\* left rain on some cells and none on others, and a timestep with two
\* different amounts of rain.
C18_StormsAndGaps ==
    /\ Generated("A")
    /\ LET p == precipitation_forecast["A"].v.precipitation
       IN  /\ \E t \in DOMAIN p : \E c, d \in Cells : p[t][c] > 0 /\ p[t][d] = 0
           /\ \E t \in DOMAIN p : \E c, d \in Cells : p[t][c] > p[t][d] /\ p[t][d] > 0

\* C27: each weather system instantiates at most one storm, of the first
\* scenario in table order whose probability exceeds the gated draw; the
\* table order being Light (0.3), Moderate (0.4), Heavy (0.2), Very Heavy
\* (0.08), Extreme (0.02), that scenario is always Light Rain or Moderate
\* Rain.
C27_OnlyLightOrModerate ==
    \A s \in SimIds :
        (Running(s, "forecast") /\ frame[s].t >= 1) =>
            /\ Len(frame[s].scenarios) \in 2 .. 4
            /\ \A k \in DOMAIN frame[s].scenarios :
                   LET scenario == frame[s].scenarios[k]
                   IN  scenario # 0 =>
                           /\ WeatherScenarios[scenario].name \in {"Light Rain", "Moderate Rain"}
                           /\ WeatherScenarios[scenario].intensity <= 8000
            /\ frame[s].t = 1 =>
                   \A draw \in 0 .. 999 :
                       FirstScenario(Mul(Mul(draw, MonsoonFactor(start_date[s].month)),
                                         DiurnalFactor(HourOf(start_date[s], 0)))) \in 0 .. 2

\* C27 witness: in one timestep one weather system instantiated a Light
\* Rain storm, one a Moderate Rain storm and one no storm.
C27_LightModerateNone ==
    /\ Running("A", "forecast")
    /\ frame["A"].t >= 1
    /\ \E i, j, k \in DOMAIN frame["A"].scenarios :
           /\ frame["A"].scenarios[i] = 0
           /\ frame["A"].scenarios[j] # 0
           /\ WeatherScenarios[frame["A"].scenarios[j]].name = "Light Rain"
           /\ frame["A"].scenarios[k] # 0
           /\ WeatherScenarios[frame["A"].scenarios[k]].name = "Moderate Rain"

\* ===================================================== properties of the pipeline
\* C7: simulate_hydrological_response without a forecast,
\* analyze_flood_progression without water depth and
\* generate_alerts_and_warnings without analysis results each end raising,
\* and leave precipitation_forecast, water_depth, flood_extent and
\* simulation_results as they were.
C7_MissingPrerequisiteRaises ==
    [][\A s \in SimIds :
          /\ (precipitation_forecast[s].none /\ SimulateBegin(s))
                 => /\ outcome'[s].call = "hydro" /\ outcome'[s].raised
                    /\ UNCHANGED dataVars
          /\ (water_depth[s].none /\ \E io_ok \in BOOLEAN : AnalyzeFloodProgression(s, io_ok))
                 => /\ outcome'[s].call = "analysis" /\ outcome'[s].raised
                    /\ UNCHANGED dataVars
          /\ (simulation_results[s].none
                 /\ \E io_ok \in BOOLEAN : GenerateAlertsAndWarnings(s, io_ok))
                 => /\ outcome'[s].call = "alerts" /\ outcome'[s].raised
                    /\ UNCHANGED dataVars]_vars

\* C7 witness: analysis was called on an object that holds a forecast but
\* no water depth yet, and raised.
C7_AnalysisBeforeSimulation ==
    /\ outcome["A"].call = "analysis"
    /\ outcome["A"].raised
    /\ ~precipitation_forecast["A"].none
    /\ water_depth["A"].none

\* C8 as stated: while the object holds a forecast whose grid is not the
\* terrain's N x N, the engine produces no water-depth and no flood-extent
\* array, and its call ends raising.
C8_MismatchFails ==
    \A s \in SimIds :
        (~precipitation_forecast[s].none /\ precipitation_forecast[s].v.n # N)
            => /\ water_depth[s].none
               /\ flood_extent[s].none
               /\ outcome[s].call = "hydro" => outcome[s].raised

IsPrefix(a, b) == Len(a) <= Len(b) /\ \A k \in 1 .. Len(a) : a[k] = b[k]

\* C9: in a call of run_complete_simulation the stages that completed are
\* an initial part of forecast, hydrological response, analysis,
\* visualization, alerts; the stage called next is the one after them; after
\* a failure the call has returned False with the later stages not run; it
\* has returned True only with all of them completed.
C9_StagesForward ==
    \A s \in SimIds :
        LET p == pipeline[s]
        IN  /\ IsPrefix(p.log, Stages)
            /\ p.pc # "none" =>
                   /\ p.result = "none"
                   /\ Len(p.log) < Len(Stages)
                   /\ p.pc = Stages[Len(p.log) + 1]
            /\ p.result = "true" => p.pc = "none" /\ p.log = Stages
            /\ p.result = "false" => p.pc = "none" /\ Len(p.log) < Len(Stages)

\* C9 witness: a call of run_complete_simulation returned True.
C9_PipelineCompleted == pipeline["A"].result = "true"

\* ===================================================== properties of the analyzer
\* The greatest depth of day d (1-based) in the water depth of object s, as
\* the analyzer reads it.
DailyMax(s, d) == MaxDay(water_depth[s].v, d - 1, N)

\* C10: each day's label is Low iff its max depth is below 50 mm, Moderate
\* iff it is at least 50 and below 200, High iff at least 200 and below 500,
\* Extreme iff at least 500; and the rank of the label never decreases as
\* the max depth grows.
C10_RiskBoundaries ==
    /\ \A s \in SimIds :
        ~simulation_results[s].none =>
            \A d \in 1 .. simulation_days[s] :
                LET m == DailyMax(s, d)
                    label == simulation_results[s].v.daily_statistics[d].risk_level
                IN  /\ label \in {"Low", "Moderate", "High", "Extreme"}
                    /\ label = "Low" <=> m < 50000
                    /\ label = "Moderate" <=> (50000 <= m /\ m < 200000)
                    /\ label = "High" <=> (200000 <= m /\ m < 500000)
                    /\ label = "Extreme" <=> m >= 500000
    /\ \A x \in DepthLevels : \A y \in DepthLevels :
           x <= y => RiskRank(RiskLevel(x)) <= RiskRank(RiskLevel(y))

\* C10 witness: the analysis labelled a day whose max depth is exactly
\* 50.0 mm, and labelled it Moderate.
C10_BoundaryDay ==
    /\ ~simulation_results["A"].none
    /\ \E d \in 1 .. simulation_days["A"] :
           /\ DailyMax("A", d) = 50000
           /\ simulation_results["A"].v.daily_statistics[d].risk_level = "Moderate"

\* The number of cells of object s whose flood-extent class is nonzero at
\* some timestep of day d (1-based).
FloodedCells(s, d) ==
    Cardinality({c \in Cells : \E t \in DayHours(d - 1) : flood_extent[s].v[t][c] > 0})

\* C14 as stated: each day's flooded_area_km2 is the number of cells whose
\* daily maximum class is nonzero times the area of a cell, (0.4 / N)^2 km^2,
\* as recorded to 0.01 km^2.
C14_AreaCountsCells ==
    \A s \in SimIds : ~simulation_results[s].none =>
        \A d \in 1 .. simulation_days[s] :
            simulation_results[s].v.daily_statistics[d].flooded_area_km2
                = RoundTo((FloodedCells(s, d) * 160000) \div (N * N), 10000)

\* The entries of day d (1-based) of the water depth of object s that are
\* not zero, and their sum.
WetEntries(s, d) ==
    {e \in DayHours(d - 1) \X Cells : water_depth[s].v[e[1]][e[2]] # 0}
WetTotal(s, d) == SumDay(water_depth[s].v, d - 1, N, "value")

\* C15: each day's avg_water_depth_mm is the mean over the nonzero entries
\* of the day, recorded to 0.1 mm, and is 0 when the day has no nonzero
\* entry; it is a number in every record.
C15_MeanOfNonzero ==
    \A s \in SimIds : ~simulation_results[s].none =>
        \A d \in 1 .. simulation_days[s] :
            LET avg == simulation_results[s].v.daily_statistics[d].avg_water_depth_mm
                wet == Cardinality(WetEntries(s, d))
            IN  /\ avg \in Nat
                /\ wet = 0 => avg = 0
                /\ wet > 0 => avg = RoundTo(WetTotal(s, d) \div wet, 100)

\* C15 witness: the analysis completed on a day without any nonzero depth
\* and recorded the mean 0.
C15_DryDay ==
    /\ outcome["A"].call = "analysis"
    /\ ~outcome["A"].raised
    /\ WetEntries("A", 1) = {}
    /\ simulation_results["A"].v.daily_statistics[1].avg_water_depth_mm = 0

\* C19: calling analyze_flood_progression again on the same water_depth,
\* flood_extent and precipitation arrays produces daily statistics identical
\* to those of the call before, and no call modifies those arrays.
C19_AnalyzerIdempotent ==
    [][ \A io_ok \in BOOLEAN :
            (AnalyzeFloodProgression("A", io_ok) /\ ~water_depth["A"].none) =>
                /\ water_depth' = water_depth
                /\ flood_extent' = flood_extent
                /\ precipitation_forecast' = precipitation_forecast
                /\ ~simulation_results["A"].none =>
                       simulation_results'["A"].v.daily_statistics
                           = simulation_results["A"].v.daily_statistics ]_vars

\* C19 witness: the analyzer has run again after the alert generator ran on
\* the results of an earlier analysis, and the alerts on file are still
\* those of the results the object holds.
C19_AnalyzedAgain ==
    /\ ~alerts_file.none
    /\ outcome["A"].call = "analysis"
    /\ ~outcome["A"].raised
    /\ results_file = simulation_results["A"]
    /\ alerts_file.v = AlertData(simulation_results["A"].v)
    /\ \E d \in DOMAIN simulation_results["A"].v.daily_statistics :
           simulation_results["A"].v.daily_statistics[d].risk_level # "Low"

\* C22: the overall summary aggregates the daily records: its max depth is
\* the maximum of the daily max depths, its max flooded area the maximum of
\* the daily flooded areas, its total precipitation the sum of the daily
\* totals; daily_statistics holds one record per day, days 1..D in order,
\* the record of day d computed from timesteps 24(d-1) .. 24d-1.
C22_SummaryAggregates ==
    \A s \in SimIds :
        ~simulation_results[s].none =>
            LET r == simulation_results[s].v
                daily == r.daily_statistics
                days == 1 .. simulation_days[s]
                hours(d) == (24 * (d - 1)) .. (24 * d - 1)
            IN  /\ Len(daily) = simulation_days[s]
                /\ \A d \in days :
                       /\ daily[d].day = d
                       /\ daily[d].max_water_depth_mm =
                              RoundTo(MaxOf({water_depth[s].v[t][c] :
                                                 t \in hours(d), c \in Cells}), 100)
                /\ r.max_water_depth_mm = MaxOf({daily[d].max_water_depth_mm : d \in days})
                /\ r.max_flooded_area_km2 = MaxOf({daily[d].flooded_area_km2 : d \in days})
                /\ r.total_precipitation_mm =
                       SumOver([d \in days |-> daily[d].total_precipitation_mm], days)

\* C22 witness: an analysis of several days of rain in which a later day
\* has the lower peak and the smaller flooded area, both above zero.
C22_LaterDayLower ==
    /\ ~simulation_results["A"].none
    /\ simulation_days["A"] > 1
    /\ LET daily == simulation_results["A"].v.daily_statistics
       IN  /\ \E d, e \in DOMAIN daily :
                  /\ d < e
                  /\ daily[e].max_water_depth_mm > 0
                  /\ daily[d].max_water_depth_mm > daily[e].max_water_depth_mm
                  /\ daily[e].flooded_area_km2 > 0
                  /\ daily[d].flooded_area_km2 > daily[e].flooded_area_km2
           /\ simulation_results["A"].v.total_precipitation_mm > 0

\* C30: every daily record is self-consistent after rounding: its
\* risk_level is the label the thresholds 50, 200 and 500 mm assign to the
\* max_water_depth_mm the record reports, so that no record reports
\* 50.0 mm together with Low.
C30_RecordSelfConsistent ==
    \A s \in SimIds :
        ~simulation_results[s].none =>
            \A d \in DOMAIN simulation_results[s].v.daily_statistics :
                LET record == simulation_results[s].v.daily_statistics[d]
                IN  /\ record.risk_level =
                           (IF record.max_water_depth_mm < 50000 THEN "Low"
                            ELSE IF record.max_water_depth_mm < 200000 THEN "Moderate"
                            ELSE IF record.max_water_depth_mm < 500000 THEN "High"
                            ELSE "Extreme")
                    /\ ~(record.max_water_depth_mm = 50000 /\ record.risk_level = "Low")

\* ============================================= properties of the alert generator
\* The alert data the last generate_alerts_and_warnings call of object s
\* returned, and the daily statistics it read.
Alerted(s) == outcome[s].call = "alerts" /\ ~outcome[s].raised
AlertsOf(s) == outcome[s].value.v
StatsOf(s) == simulation_results[s].v.daily_statistics

\* The number of records of a list that are of the given day.
RecordsOf(list, day) == Cardinality({k \in 1 .. Len(list) : list[k].day = day})

\* The list has exactly one record of the day, and it is of that severity.
OneRecord(list, day, severity) ==
    /\ RecordsOf(list, day) = 1
    /\ \A k \in 1 .. Len(list) : list[k].day = day => list[k].severity = severity

\* C12: every Extreme day yields exactly one alert, CRITICAL; every High day
\* exactly one alert, HIGH; every Moderate day exactly one warning, MODERATE;
\* every Low day whose recorded max depth is above 10 mm exactly one
\* warning, LOW; every other day no record; no day is in both lists, and
\* the lists hold no other record.
C12_AlertsPartitionDays ==
    \A s \in SimIds : Alerted(s) =>
        LET alerts == AlertsOf(s).alerts
            warnings == AlertsOf(s).warnings
            stats == StatsOf(s)
        IN  /\ \A d \in 1 .. Len(stats) :
                   LET day == stats[d].day
                       risk == stats[d].risk_level
                   IN  CASE risk = "Extreme" ->
                                OneRecord(alerts, day, "CRITICAL") /\ RecordsOf(warnings, day) = 0
                         [] risk = "High" ->
                                OneRecord(alerts, day, "HIGH") /\ RecordsOf(warnings, day) = 0
                         [] risk = "Moderate" ->
                                OneRecord(warnings, day, "MODERATE") /\ RecordsOf(alerts, day) = 0
                         [] risk = "Low" /\ stats[d].max_water_depth_mm > 10000 ->
                                OneRecord(warnings, day, "LOW") /\ RecordsOf(alerts, day) = 0
                         [] OTHER ->
                                RecordsOf(alerts, day) = 0 /\ RecordsOf(warnings, day) = 0
            /\ \A k \in 1 .. Len(alerts) : \E d \in 1 .. Len(stats) : alerts[k].day = stats[d].day
            /\ \A k \in 1 .. Len(warnings) :
                   \E d \in 1 .. Len(stats) : warnings[k].day = stats[d].day

\* C12 witness: the generator ran on a Low day recorded at exactly 10.0 mm,
\* which yielded no record, and on a day that yielded an alert.
C12_AdvisoryBoundary ==
    /\ Alerted("A")
    /\ \E d \in 1 .. Len(StatsOf("A")) :
           /\ StatsOf("A")[d].risk_level = "Low"
           /\ StatsOf("A")[d].max_water_depth_mm = 10000
           /\ RecordsOf(AlertsOf("A").warnings, StatsOf("A")[d].day) = 0
    /\ Len(AlertsOf("A").alerts) > 0

\* C13: in the alert data, total_alerts is the number of alerts,
\* total_warnings the number of warnings, and highest_risk_day is one of the
\* daily records, of a rank under Low < Moderate < High < Extreme that no
\* other day exceeds.
C13_SummaryConsistent ==
    \A s \in SimIds : Alerted(s) =>
        LET data == AlertsOf(s)
            stats == StatsOf(s)
        IN  /\ data.summary.total_alerts = Len(data.alerts)
            /\ data.summary.total_warnings = Len(data.warnings)
            /\ \E d \in 1 .. Len(stats) : data.summary.highest_risk_day = stats[d]
            /\ \A d \in 1 .. Len(stats) :
                   RiskRank(stats[d].risk_level)
                       <= RiskRank(data.summary.highest_risk_day.risk_level)

\* C13 witness: the generator ran on days of different ranks, the highest
\* not the first, and both lists hold a record.
C13_LaterDayHighest ==
    /\ Alerted("A")
    /\ AlertsOf("A").summary.highest_risk_day.day > 1
    /\ StatsOf("A")[1].risk_level = "Moderate"
    /\ AlertsOf("A").summary.total_alerts > 0
    /\ AlertsOf("A").summary.total_warnings > 0

\* ========================================= properties of the simulation manager
\* C21: runs do not interfere: two runs executed concurrently, their stages
\* interleaved in any way, each end with the results and cached results of
\* the run executed alone, where the results the manager caches are those
\* of its own simulation.
C21_RunsDoNotInterfere ==
    \A m \in SimIds :
        (sim_manager[m].simulation_status = "completed" /\ ~sim_manager[m].results_cache.none)
            => sim_manager[m].results_cache = simulation_results[m]

C29_OneRunAtATime ==
    /\ Unfinished("A") <= 1
    /\ \A k \in DOMAIN event_loop["A"].responses :
           event_loop["A"].responses[k].during => event_loop["A"].responses[k].code = 400

\* ================================================== properties of scenarios
\* The forecast of object s holds no rain at any timestep and cell.
DryForecast(s) ==
    /\ ~precipitation_forecast[s].none
    /\ LET forecast == precipitation_forecast[s].v
       IN  \A t \in DOMAIN forecast.precipitation : \A c \in CellsOf(forecast.n) :
               forecast.precipitation[t][c] = 0

\* C16: with a forecast that holds no rain, every water_depth and
\* flood_extent entry a timestep writes, and every entry of the assigned
\* arrays, is 0; every day of the analysis is Low risk; and the alert
\* generator produces no alert and no warning.
C16_DryStaysDry ==
    \A s \in SimIds : DryForecast(s) =>
        /\ \A t \in StepsDone(s) : \A c \in Cells :
               frame[s].water_depth[t][c] = 0 /\ frame[s].flood_extent[t][c] = 0
        /\ ~water_depth[s].none =>
               \A t \in DOMAIN water_depth[s].v : \A c \in Cells :
                   water_depth[s].v[t][c] = 0 /\ flood_extent[s].v[t][c] = 0
        /\ ~simulation_results[s].none =>
               \A d \in 1 .. simulation_days[s] : StatsOf(s)[d].risk_level = "Low"
        /\ Alerted(s) =>
               /\ AlertsOf(s).alerts = << >>
               /\ AlertsOf(s).warnings = << >>
               /\ AlertsOf(s).summary.total_alerts = 0
               /\ AlertsOf(s).summary.total_warnings = 0

\* C16 witness: on a forecast without rain the simulation, the analysis and
\* the alert generator have run, over the whole horizon.
C16_DryRunCompleted ==
    /\ DryForecast("A")
    /\ ~water_depth["A"].none
    /\ DOMAIN water_depth["A"].v = 0 .. (TimestepsOf(simulation_days["A"]) - 1)
    /\ Alerted("A")

\* The forecast of object s is a storm of 100 mm/h over cell c0 at timestep
\* 0 and no other rain, and the terrain is flat.
SingleCellStorm(s, c0) ==
    /\ dem.file /\ dem.relief = "flat"
    /\ ~precipitation_forecast[s].none
    /\ LET forecast == precipitation_forecast[s].v
       IN  /\ forecast.n = N
           /\ \A t \in DOMAIN forecast.precipitation : \A c \in Cells :
                  forecast.precipitation[t][c] = IF t = 0 /\ c = c0 THEN 100000 ELSE 0

\* The cells of the grid among the 8 neighbours of c.
GridNeighbors(c) == {n \in Cells : n # c /\ n[1] - c[1] \in -1 .. 1 /\ n[2] - c[2] \in -1 .. 1}

\* C17 as stated: after a simulation of a single-cell storm over a cell
\* with 8 neighbours on flat terrain, the storm-centre cell holds water at
\* timestep 0 or 1, and at some timestep from 1 on one of its neighbours
\* holds water.
C17_StormSpreads ==
    \A s \in SimIds : \A c0 \in Interior :
        (SingleCellStorm(s, c0) /\ ~water_depth[s].none) =>
            /\ \E t \in 0 .. 1 : water_depth[s].v[t][c0] > 0
            /\ \E t \in DOMAIN water_depth[s].v : \E n \in GridNeighbors(c0) :
                   t >= 1 /\ water_depth[s].v[t][n] > 0
====
